---- MODULE Spec2Model ----
(***************************************************************************)
(* Model of archctl's validation core: validateManifest (validator.mjs).   *)
(* One validateManifest call is followed from its entry to the report it   *)
(* returns (or the exception it propagates), together with the events the  *)
(* call leaves behind in the event loop: the completion callbacks the      *)
(* DocHub validators engine invokes and the 10 s safety timer.             *)
(*                                                                         *)
(* DocHub itself (manifest parser, cache, entities, validators engine) is  *)
(* an external library: its steps are modelled by their possible outcomes  *)
(* (returns / throws / registers a load error / reports a rule).           *)
(***************************************************************************)
EXTENDS Integers, Sequences, FiniteSets, TLC

\* ---------------------------------------------------------------- bounds
MaxRules == 2      \* at most this many rules under manifest.rules.validators
MaxItems == 1      \* at most this many items in one rule result
MaxDiag  == 1      \* at most this many distinct keys in cache.errors
MaxFragments == 2  \* at most this many fragments besides the root in one load

\* ------------------------------------------------------- program constants
\* The id prefix that marks a load diagnostic: '$error'
ErrorPrefix == <<"$", "e", "r", "r", "o", "r">>

\* Number of steps of the load sequence: clean, startLoad, import,
\* checkAwaitedPackages, checkLoaded, stopLoad
LoadSteps == 6

\* The awaited calls of the load sequence, in program order
LoadStepName ==
    <<"clean", "startLoad", "import", "checkAwaitedPackages", "checkLoaded",
      "stopLoad">>

\* ------------------------------------------------------------ value sets
\* Rule ids are keys of manifest.rules.validators, written as character
\* sequences: "lint", "$error.x", "$erro", "x$error".
PoolOrder ==
    << <<"l", "i", "n", "t">>,
       ErrorPrefix \o <<".", "x">>,
       <<"$", "e", "r", "r", "o">>,
       <<"x">> \o ErrorPrefix >>

Range(s) == { s[i] : i \in 1..Len(s) }

RuleIdPool == Range(PoolOrder)

PoolIndex(id) == CHOOSE k \in 1..Len(PoolOrder) : PoolOrder[k] = id

\* Object.keys(manifest.rules.validators): distinct keys. The code reads
\* only the length of this list, so one listing order per set of keys is
\* enumerated (the order of PoolOrder).
DeclaredChoices ==
    UNION { { s \in [1..n -> RuleIdPool] :
                \A i, j \in 1..n : i < j => PoolIndex(s[i]) < PoolIndex(s[j]) }
            : n \in 0..MaxRules }

DiagKeys == 1..MaxDiag

\* String.prototype.startsWith
StartsWith(s, p) == Len(s) >= Len(p) /\ SubSeq(s, 1, Len(p)) = p

\* An entry of cache.errors: its key and the session that registered it
CacheEntry(k, session) == [key |-> k, session |-> session]

\* cache.errors[key], as read at the "Collect loading errors" step
DiagEntry(e) == [kind |-> "diagnostic", key |-> e.key, session |-> e.session]

\* The objects the engine can hand to a completion callback for rule r.
\* hasId / hasItems say whether the object has an `id` / `items` property.
SuccessResults(r) ==
    { [kind |-> "rule", rule |-> r, id |-> r, hasId |-> TRUE,
       hasItems |-> TRUE, items |-> n, error |-> FALSE] : n \in 0..MaxItems }

FailureResults(r) ==
    { [kind |-> "rule", rule |-> r, id |-> r, hasId |-> TRUE,
       hasItems |-> TRUE, items |-> n, error |-> TRUE] : n \in 0..MaxItems }
    \cup
    { [kind |-> "rule", rule |-> r, id |-> r, hasId |-> TRUE,
       hasItems |-> FALSE, items |-> 0, error |-> TRUE],
      [kind |-> "rule", rule |-> r, id |-> <<>>, hasId |-> FALSE,
       hasItems |-> TRUE, items |-> 1, error |-> TRUE] }

NoReport == [kind |-> "none"]

\* What the parser's document store holds after a load step returned:
\* clean empties it, import merges this session's documents into it.
StoreAfter(step, store) ==
    IF step = "clean" THEN {}
    ELSE IF step = "import" THEN store \cup {"session"}
    ELSE store

\* ----------------------------------------------------------------- state
VARIABLES
    pc,               \* position of the validateManifest call
    fsWorkspace,      \* fs.existsSync(workspaceDir)
    fsManifest,       \* fs.existsSync(manifestPath)
    declared,         \* Object.keys(manifest.rules.validators) of the workspace
    globalsSet,       \* global.$paths / $listeners / $roles have been assigned
    cacheErrors,      \* entries of cache.errors, in the insertion order of their keys
    loadStep,         \* next step of the load sequence (1..LoadSteps)
    problems,         \* const problems: the loading errors collected
    validatorCount,   \* const validatorCount
    completedCount,   \* let completedCount
    validatorResults, \* const validatorResults
    promise,          \* state of validationPromise
    timer,            \* the setTimeout safety timer: unset / armed / fired
    engineCalls,      \* number of calls of validators(...)
    outstanding,      \* rules the engine has been asked for and not reported
    fired,            \* history: callback arguments in the order the callbacks fired
    waitEndedBy,      \* history: which resolve() call settled validationPromise
    countAtEnd,       \* history: completedCount when validationPromise settled
    report,           \* the outcome for the caller: report returned or exception
    docStore,         \* whose documents the parser's store holds: "earlier", "session"
    log,              \* history: the pipeline steps run, each with ok or thrown
    reRegistered,     \* history of the load: an error was registered under a key already present
    \* two validateManifest calls in one process (OverlapSpec)
    opc,              \* position of each call
    oStep,            \* next step of each call's load sequence
    gPaths,           \* global.$paths: the workspace of the call that set it last
    sCache,           \* cache.errors of the one cache module
    sStore,           \* whose documents the one parser's store holds
    oProblems,        \* const problems of each call
    oManifest,        \* whose documents each call's manifest held at entities()
    oOwn,             \* history: keys of the load errors each call's load registered
    oReport,          \* outcome of each call: none / report / degenerate
    overlapped,       \* history: a call started while the other was suspended
    \* the import walk of one load (ResolverSpec)
    rpc,              \* start / walking / done
    rMerged,          \* locators whose fragment is merged into the manifest
    rInFlight,        \* locators marked in flight
    rFetching,        \* locators whose fetch has not completed
    rAwaited,         \* awaited references: locators whose fetch was deferred
    rTodo,            \* per merged fragment: its references not yet walked
    rOpen,            \* per merged fragment: the references being resolved
    rDiag,            \* per key: the entries the collector holds for it
    rFetched,         \* history: locators whose fetch was started
    rRefetched,       \* history: locators whose fetch was started again
    rRemerged,        \* history: locators merged a second time
    rFailed,          \* history: locators whose fetch or parse failed
    rCycleSkip,       \* history: a reference to an ancestor in flight was walked
    rSharedSkip,      \* history: a reference to a locator reached on another path was walked
    rLate,            \* history: how the settle step ended awaited references
    \* one invocation of the command line (CliSpec)
    cpc,              \* position of program.action: start / validating / exited
    options,          \* the parsed options: format, verbose, output
    consoleLog,       \* what console.log is bound to: original / noop
    consoleError,     \* what console.error is bound to: original / noop
    result,           \* what the validateManifest call produced
    output,           \* const output: the formatted report
    stdout,           \* what was written to the standard output
    stderr,           \* what was written to the error stream
    written,          \* the paths written with fs.writeFileSync
    exitCode,         \* the argument of process.exit, once called
    caught            \* history: the message of the error the catch block caught

mvars == <<pc, fsWorkspace, fsManifest, declared, globalsSet, cacheErrors,
           loadStep, problems, validatorCount, completedCount,
           validatorResults, promise, timer, engineCalls, outstanding,
           fired, waitEndedBy, countAtEnd, report, docStore, log,
           reRegistered>>

ovars == <<opc, oStep, gPaths, sCache, sStore, oProblems, oManifest, oOwn,
           oReport, overlapped>>

rvars == <<rpc, rMerged, rInFlight, rFetching, rAwaited, rTodo, rOpen, rDiag,
           rFetched, rRefetched, rRemerged, rFailed, rCycleSkip, rSharedSkip,
           rLate>>

cvars == <<cpc, options, consoleLog, consoleError, result, output, stdout,
           stderr, written, exitCode, caught>>

vars == <<mvars, ovars, rvars, cvars>>

\* The locators of a load: the root and the fragments it can reach
Root == 0

Locators == Root..MaxFragments

\* resolve(rootLocator) has not been called
ResolverIdle ==
    /\ rpc = "start"
    /\ rMerged = {}
    /\ rInFlight = {}
    /\ rFetching = {}
    /\ rAwaited = {}
    /\ rTodo = [l \in Locators |-> {}]
    /\ rOpen = [l \in Locators |-> {}]
    /\ rDiag = [l \in Locators |-> 0]
    /\ rFetched = {}
    /\ rRefetched = {}
    /\ rRemerged = {}
    /\ rFailed = {}
    /\ rCycleSkip = FALSE
    /\ rSharedSkip = FALSE
    /\ rLate = {}

\* program.action has not run: default options, nothing written
CliIdle ==
    /\ cpc = "start"
    /\ options = [format |-> "text", verbose |-> FALSE, output |-> "none"]
    /\ consoleLog = "original"
    /\ consoleError = "original"
    /\ result = NoReport
    /\ output = NoReport
    /\ stdout = <<>>
    /\ stderr = <<>>
    /\ written = {}
    /\ exitCode = {}
    /\ caught = {}

\* The two calls of OverlapSpec
Sessions == {"A", "B"}

\* No call of OverlapSpec has started
OverlapIdle ==
    /\ opc = [s \in Sessions |-> "idle"]
    /\ oStep = [s \in Sessions |-> 1]
    /\ gPaths = "none"
    /\ sCache = <<>>
    /\ sStore = {}
    /\ oProblems = [s \in Sessions |-> <<>>]
    /\ oManifest = [s \in Sessions |-> {}]
    /\ oOwn = [s \in Sessions |-> {}]
    /\ oReport = [s \in Sessions |-> "none"]
    /\ overlapped = FALSE

\* cache.errors and the parser's store may hold entries of an earlier session of the same process
Init ==
    /\ pc = "entry"
    /\ fsWorkspace \in BOOLEAN
    /\ fsManifest \in BOOLEAN
    /\ declared \in DeclaredChoices
    /\ globalsSet = FALSE
    /\ cacheErrors \in { <<>>, <<CacheEntry(1, "earlier")>> }
    /\ loadStep = 1
    /\ problems = <<>>
    /\ validatorCount = 0
    /\ completedCount = 0
    /\ validatorResults = <<>>
    /\ promise = "none"
    /\ timer = "unset"
    /\ engineCalls = 0
    /\ outstanding = {}
    /\ fired = <<>>
    /\ waitEndedBy = "none"
    /\ countAtEnd = 0
    /\ report = NoReport
    /\ docStore = IF cacheErrors = <<>> THEN {} ELSE {"earlier"}
    /\ log = <<>>
    /\ reRegistered = FALSE
    /\ OverlapIdle
    /\ ResolverIdle
    /\ CliIdle

\* ------------------------------------------------------- the two reports
\* Variant: an empty items array counts as an issue (>= 0 for > 0)
IsRealIssue_EmptyCounts(v) ==
    v.hasItems /\ v.items >= 0 /\ ~StartsWith(v.id, ErrorPrefix)

\* Variant: the '$error' exclusion is left out
IsRealIssue_NoTagCheck(v) ==
    v.hasItems /\ v.items > 0

\* Variant: a result with its error field set counts as a real issue
IsRealIssue_CountsErrors(v) ==
    v.error \/ (v.hasItems /\ v.items > 0 /\ ~StartsWith(v.id, ErrorPrefix))

\* Variant: the filter of the aggregation does not look at the id
IsRealIssue_AnyId(v) == v.hasItems /\ v.items > 0

\* v => v.items && v.items.length > 0 && !v.id.startsWith('$error')
IsRealIssue(v) ==
    v.hasItems /\ v.items > 0 /\ ~StartsWith(v.id, ErrorPrefix)

\* The filter callback reads v.id.startsWith only for a result with items;
\* on a result without an id that read raises a TypeError.
FilterThrows(results) ==
    \E i \in 1..Len(results) :
        results[i].hasItems /\ results[i].items > 0 /\ ~results[i].hasId

\* Variant: totalIssues counts the rule results only
BuildReport_TotalFromResults(diags, results) ==
    LET allProblems == diags \o results
        realValidationIssues == SelectSeq(results, IsRealIssue)
    IN  [kind     |-> "report",
         loaded   |-> TRUE,
         success  |-> Len(realValidationIssues) = 0,
         problems |-> allProblems,
         stats    |-> [totalIssues      |-> Len(results),
                       loadingErrors    |-> Len(diags),
                       validationErrors |-> Len(realValidationIssues)]]

\* Variant: success computed from the length of problems
BuildReport_SuccessFromProblems(diags, results) ==
    LET allProblems == diags \o results
        realValidationIssues == SelectSeq(results, IsRealIssue)
    IN  [kind     |-> "report",
         loaded   |-> TRUE,
         success  |-> Len(allProblems) = 0,
         problems |-> allProblems,
         stats    |-> [totalIssues      |-> Len(allProblems),
                       loadingErrors    |-> Len(diags),
                       validationErrors |-> Len(realValidationIssues)]]

\* The object returned at the end of the try block
BuildReport(diags, results) ==
    LET allProblems == diags \o results
        realValidationIssues == SelectSeq(results, IsRealIssue)
    IN  [kind     |-> "report",
         loaded   |-> TRUE,
         success  |-> Len(realValidationIssues) = 0,
         problems |-> allProblems,
         stats    |-> [totalIssues      |-> Len(allProblems),
                       loadingErrors    |-> Len(diags),
                       validationErrors |-> Len(realValidationIssues)]]

\* Variant: the catch block counts no loading error
DegenerateReport_ZeroLoading(message) ==
    [kind     |-> "report",
     loaded   |-> FALSE,
     success  |-> FALSE,
     problems |-> << [kind |-> "critical", id |-> "critical-error",
                      error |-> message] >>,
     stats    |-> [totalIssues |-> 1, loadingErrors |-> 0,
                   validationErrors |-> 0]]

\* The object returned by the catch block
DegenerateReport(message) ==
    [kind     |-> "report",
     loaded   |-> FALSE,
     success  |-> FALSE,
     problems |-> << [kind |-> "critical", id |-> "critical-error",
                      error |-> message] >>,
     stats    |-> [totalIssues |-> 1, loadingErrors |-> 1,
                   validationErrors |-> 0]]

\* Variant: the catch block keeps what was collected before the exception
Catch_KeepsCollected(message) ==
    /\ report' = [DegenerateReport(message) EXCEPT
                    !.problems = problems \o validatorResults \o @]
    /\ pc' = "done"

\* An exception raised inside the try block: the catch block returns
Catch(message) ==
    /\ report' = DegenerateReport(message)
    /\ pc' = "done"

\* An exception raised outside the try block rejects the promise that
\* validateManifest returned: the caller gets the exception
Throw(message) ==
    /\ report' = [kind |-> "exception", message |-> message]
    /\ pc' = "thrown"

\* History of the steps run
\* History of the steps run: the step, whether it returned, and what it
\* found that an earlier session had left behind
LoggedWith(step, ok, saw) ==
    log' = Append(log, [step |-> step, ok |-> ok, saw |-> saw])

Logged(step, ok) == LoggedWith(step, ok, {})

\* ------------------------------------------------ before the try block
\* Variant: the environment is initialized before the existence checks
validateManifest_ChecksLate ==
    /\ pc = "entry"
    /\ UNCHANGED <<ovars, rvars, cvars>>
    /\ UNCHANGED reRegistered
    /\ Logged("existsSync", fsWorkspace /\ fsManifest)
    /\ globalsSet' = TRUE
    /\ IF ~fsWorkspace THEN Throw("Workspace directory not found")
       ELSE IF ~fsManifest THEN Throw("Root manifest not found")
       ELSE pc' = "env" /\ UNCHANGED report
    /\ UNCHANGED <<fsWorkspace, fsManifest, declared, cacheErrors,
                   loadStep, problems, validatorCount, completedCount,
                   validatorResults, promise, timer, engineCalls, outstanding,
                   fired, waitEndedBy, countAtEnd, docStore>>

\* Lines up to the two existsSync checks: throws to the caller
validateManifest ==
    /\ pc = "entry"
    /\ UNCHANGED <<ovars, rvars, cvars>>
    /\ UNCHANGED reRegistered
    /\ Logged("existsSync", fsWorkspace /\ fsManifest)
    /\ IF ~fsWorkspace THEN Throw("Workspace directory not found")
       ELSE IF ~fsManifest THEN Throw("Root manifest not found")
       ELSE pc' = "env" /\ UNCHANGED report
    /\ UNCHANGED <<fsWorkspace, fsManifest, declared, globalsSet, cacheErrors,
                   loadStep, problems, validatorCount, completedCount,
                   validatorResults, promise, timer, engineCalls, outstanding,
                   fired, waitEndedBy, countAtEnd, docStore>>

\* initializeDocHubEnvironment(workspaceDir) and the assignment of
\* process.env.VUE_APP_DOCHUB_ROOT_MANIFEST
initializeDocHubEnvironment ==
    /\ pc = "env"
    /\ UNCHANGED <<ovars, rvars, cvars>>
    /\ UNCHANGED reRegistered
    /\ Logged("initializeDocHubEnvironment", TRUE)
    /\ globalsSet' = TRUE
    /\ pc' = "locate"
    /\ UNCHANGED <<fsWorkspace, fsManifest, declared, cacheErrors,
                   loadStep, problems, validatorCount, completedCount,
                   validatorResults, promise, timer, engineCalls, outstanding,
                   fired, waitEndedBy, countAtEnd, report, docStore>>

\* getDocHubPath throws when no candidate directory exists; the dynamic
\* imports that follow throw when a module cannot be loaded. Both are
\* outside the try block.
getDocHubPath(found) ==
    /\ pc = "locate"
    /\ UNCHANGED <<ovars, rvars, cvars>>
    /\ UNCHANGED reRegistered
    /\ Logged("getDocHubPath", found)
    /\ IF found THEN pc' = "import" /\ UNCHANGED report
                ELSE Throw("DocHub not found")
    /\ UNCHANGED <<fsWorkspace, fsManifest, declared, globalsSet, cacheErrors,
                   loadStep, problems, validatorCount, completedCount,
                   validatorResults, promise, timer, engineCalls, outstanding,
                   fired, waitEndedBy, countAtEnd, docStore>>

ImportModules(ok) ==
    /\ pc = "import"
    /\ UNCHANGED <<ovars, rvars, cvars>>
    /\ UNCHANGED reRegistered
    /\ Logged("importModules", ok)
    /\ IF ok THEN pc' = "setup" /\ UNCHANGED report
             ELSE Throw("importModules")
    /\ UNCHANGED <<fsWorkspace, fsManifest, declared, globalsSet, cacheErrors,
                   loadStep, problems, validatorCount, completedCount,
                   validatorResults, promise, timer, engineCalls, outstanding,
                   fired, waitEndedBy, countAtEnd, docStore>>

\* Variant: the error cache is left as it is
errorClear_NotCleared ==
    /\ pc = "setup"
    /\ UNCHANGED <<ovars, rvars, cvars>>
    /\ UNCHANGED reRegistered
    /\ LoggedWith("errorClear", TRUE,
                  { cacheErrors[i].session : i \in 1..Len(cacheErrors) })
    /\ UNCHANGED docStore
    /\ UNCHANGED cacheErrors
    /\ loadStep' = 1
    /\ pc' = "load"
    /\ UNCHANGED <<fsWorkspace, fsManifest, declared, globalsSet,
                   problems, validatorCount, completedCount,
                   validatorResults, promise, timer, engineCalls, outstanding,
                   fired, waitEndedBy, countAtEnd, report>>

\* Parser callbacks are assigned, then cache.errorClear()
errorClear ==
    /\ pc = "setup"
    /\ UNCHANGED <<ovars, rvars, cvars>>
    /\ UNCHANGED reRegistered
    /\ LoggedWith("errorClear", TRUE,
                  { cacheErrors[i].session : i \in 1..Len(cacheErrors) })
    /\ UNCHANGED docStore
    /\ cacheErrors' = <<>>
    /\ loadStep' = 1
    /\ pc' = "load"
    /\ UNCHANGED <<fsWorkspace, fsManifest, declared, globalsSet,
                   problems, validatorCount, completedCount,
                   validatorResults, promise, timer, engineCalls, outstanding,
                   fired, waitEndedBy, countAtEnd, report>>

\* ------------------------------------------------------ the try block
\* Variant: the load sequence outside the try block
LoadStep_Uncaught(ok) ==
    /\ pc = "load"
    /\ UNCHANGED <<ovars, rvars, cvars>>
    /\ UNCHANGED reRegistered
    /\ LoggedWith(LoadStepName[loadStep], ok,
                  IF LoadStepName[loadStep] = "clean" THEN docStore ELSE {})
    /\ IF ok
         THEN /\ loadStep' = loadStep + 1
              /\ docStore' = StoreAfter(LoadStepName[loadStep], docStore)
              /\ pc' = IF loadStep = LoadSteps THEN "entities" ELSE "load"
              /\ UNCHANGED report
         ELSE /\ Throw(LoadStepName[loadStep])
              /\ UNCHANGED <<loadStep, docStore>>
    /\ UNCHANGED <<fsWorkspace, fsManifest, declared, globalsSet, cacheErrors,
                   problems, validatorCount, completedCount,
                   validatorResults, promise, timer, engineCalls, outstanding,
                   fired, waitEndedBy, countAtEnd>>

\* Variant: entities(manifest) is reached right after import returned
LoadStep_EntitiesEarly(ok) ==
    /\ pc = "load"
    /\ UNCHANGED <<ovars, rvars, cvars>>
    /\ UNCHANGED reRegistered
    /\ LoggedWith(LoadStepName[loadStep], ok,
                  IF LoadStepName[loadStep] = "clean" THEN docStore ELSE {})
    /\ IF ok
         THEN /\ loadStep' = loadStep + 1
              /\ docStore' = StoreAfter(LoadStepName[loadStep], docStore)
              /\ pc' = IF LoadStepName[loadStep] = "import"
                         THEN "entities" ELSE "load"
              /\ UNCHANGED report
         ELSE /\ Catch(LoadStepName[loadStep])
              /\ UNCHANGED <<loadStep, docStore>>
    /\ UNCHANGED <<fsWorkspace, fsManifest, declared, globalsSet, cacheErrors,
                   problems, validatorCount, completedCount,
                   validatorResults, promise, timer, engineCalls, outstanding,
                   fired, waitEndedBy, countAtEnd>>

\* One awaited step of the load sequence returns or throws
LoadStep(ok) ==
    /\ pc = "load"
    /\ UNCHANGED <<ovars, rvars, cvars>>
    /\ UNCHANGED reRegistered
    /\ LoggedWith(LoadStepName[loadStep], ok,
                  IF LoadStepName[loadStep] = "clean" THEN docStore ELSE {})
    /\ IF ok
         THEN /\ loadStep' = loadStep + 1
              /\ docStore' = StoreAfter(LoadStepName[loadStep], docStore)
              /\ pc' = IF loadStep = LoadSteps THEN "entities" ELSE "load"
              /\ UNCHANGED report
         ELSE /\ Catch(LoadStepName[loadStep])
              /\ UNCHANGED <<loadStep, docStore>>
    /\ UNCHANGED <<fsWorkspace, fsManifest, declared, globalsSet, cacheErrors,
                   problems, validatorCount, completedCount,
                   validatorResults, promise, timer, engineCalls, outstanding,
                   fired, waitEndedBy, countAtEnd>>

\* Variant: every registration adds an entry, also under a key already present
PutError_Appends(errors, e) == Append(errors, e)

\* cache.errors[key] = entry: a key that is already present keeps its
\* place and gets the new entry
PutError(errors, e) ==
    IF \E i \in 1..Len(errors) : errors[i].key = e.key
      THEN [i \in 1..Len(errors) |->
               IF errors[i].key = e.key THEN e ELSE errors[i]]
      ELSE Append(errors, e)

\* Variant: a registered load error ends the run
registerError_Aborts(k) ==
    /\ pc = "load"
    /\ UNCHANGED <<ovars, rvars, cvars>>
    /\ UNCHANGED <<docStore, log>>
    /\ loadStep \in 3..5
    /\ cacheErrors' = PutError(cacheErrors, CacheEntry(k, "session"))
    /\ reRegistered' = (reRegistered \/ \E i \in 1..Len(cacheErrors) : cacheErrors[i].key = k)
    /\ cacheErrors' # cacheErrors \/ reRegistered' # reRegistered
    /\ Catch("load error")
    /\ UNCHANGED <<fsWorkspace, fsManifest, declared, globalsSet,
                   loadStep, problems, validatorCount, completedCount,
                   validatorResults, promise, timer, engineCalls, outstanding,
                   fired, waitEndedBy, countAtEnd>>

\* The parser registers a load error in the cache while import,
\* checkAwaitedPackages or checkLoaded is running.
registerError(k) ==
    /\ pc = "load"
    /\ UNCHANGED <<ovars, rvars, cvars>>
    /\ UNCHANGED <<docStore, log>>
    /\ loadStep \in 3..5
    /\ cacheErrors' = PutError(cacheErrors, CacheEntry(k, "session"))
    /\ reRegistered' = (reRegistered \/ \E i \in 1..Len(cacheErrors) : cacheErrors[i].key = k)
    /\ cacheErrors' # cacheErrors \/ reRegistered' # reRegistered
    /\ UNCHANGED <<pc, fsWorkspace, fsManifest, declared, globalsSet,
                   loadStep, problems, validatorCount, completedCount,
                   validatorResults, promise, timer, engineCalls, outstanding,
                   fired, waitEndedBy, countAtEnd, report>>

\* A load error is registered in the cache while the rules are evaluated
\* (a rule's query makes the parser fetch a document that fails). At most
\* one such entry is registered in a run.
registerErrorLate(k) ==
    /\ pc = "await"
    /\ promise = "pending"
    /\ UNCHANGED <<ovars, rvars, cvars>>
    /\ UNCHANGED <<docStore, log, reRegistered>>
    /\ \A i \in 1..Len(cacheErrors) : cacheErrors[i].session # "late"
    /\ cacheErrors' = PutError(cacheErrors, CacheEntry(k, "late"))
    /\ UNCHANGED <<pc, fsWorkspace, fsManifest, declared, globalsSet,
                   loadStep, problems, validatorCount, completedCount,
                   validatorResults, promise, timer, engineCalls, outstanding,
                   fired, waitEndedBy, countAtEnd, report>>

\* Variant: a failure of entities(manifest) is swallowed
entities_Swallowed(ok) ==
    /\ pc = "entities"
    /\ UNCHANGED <<ovars, rvars, cvars>>
    /\ UNCHANGED reRegistered
    /\ Logged("entities", ok)
    /\ UNCHANGED docStore
    /\ pc' = "collect"
    /\ UNCHANGED report
    /\ UNCHANGED <<fsWorkspace, fsManifest, declared, globalsSet, cacheErrors,
                   loadStep, problems, validatorCount, completedCount,
                   validatorResults, promise, timer, engineCalls, outstanding,
                   fired, waitEndedBy, countAtEnd>>

\* entities(manifest)
entities(ok) ==
    /\ pc = "entities"
    /\ UNCHANGED <<ovars, rvars, cvars>>
    /\ UNCHANGED reRegistered
    /\ Logged("entities", ok)
    /\ UNCHANGED docStore
    /\ IF ok THEN pc' = "collect" /\ UNCHANGED report
             ELSE Catch("entities")
    /\ UNCHANGED <<fsWorkspace, fsManifest, declared, globalsSet, cacheErrors,
                   loadStep, problems, validatorCount, completedCount,
                   validatorResults, promise, timer, engineCalls, outstanding,
                   fired, waitEndedBy, countAtEnd>>

\* Collect loading errors, then build the custom functions, the app object
\* and the datasets (jsonataFunctions / datasetsHelper may throw)
CollectProblems(ok) ==
    /\ pc = "collect"
    /\ UNCHANGED <<ovars, rvars, cvars>>
    /\ UNCHANGED reRegistered
    /\ Logged("datasets", ok)
    /\ UNCHANGED docStore
    /\ problems' = [i \in 1..Len(cacheErrors) |-> DiagEntry(cacheErrors[i])]
    /\ IF ok THEN pc' = "validators" /\ UNCHANGED report
             ELSE Catch("datasets")
    /\ UNCHANGED <<fsWorkspace, fsManifest, declared, globalsSet, cacheErrors,
                   loadStep, validatorCount, completedCount,
                   validatorResults, promise, timer, engineCalls, outstanding,
                   fired, waitEndedBy, countAtEnd>>

\* resolve(): settles validationPromise if it is still pending
Resolve(by, count) ==
    IF promise = "pending"
      THEN promise' = "resolved" /\ waitEndedBy' = by /\ countAtEnd' = count
      ELSE UNCHANGED <<promise, waitEndedBy, countAtEnd>>

\* Variant: the executor without the validatorCount === 0 fast path
validationPromise_NoFastPath(engineThrows) ==
    /\ pc = "validators"
    /\ UNCHANGED <<ovars, rvars, cvars>>
    /\ reRegistered' = FALSE
    /\ IF FALSE
         THEN UNCHANGED log
         ELSE Logged("validators", ~engineThrows)
    /\ UNCHANGED docStore
    /\ validatorResults' = <<>>
    /\ validatorCount' = Len(declared)
    /\ completedCount' = 0
    /\ engineCalls' = engineCalls + 1
    /\ IF engineThrows
         THEN /\ promise' = "rejected"
              /\ Catch("validators")
              /\ UNCHANGED <<outstanding, timer>>
         ELSE /\ promise' = "pending"
              /\ outstanding' = Range(declared)
              /\ timer' = "armed"
              /\ pc' = "await"
              /\ UNCHANGED report
    /\ UNCHANGED <<waitEndedBy, countAtEnd>>
    /\ UNCHANGED <<fsWorkspace, fsManifest, declared, globalsSet, cacheErrors,
                   loadStep, problems, fired>>

\* The executor of validationPromise, run synchronously up to the await:
\* the counters, the zero-rule fast path, the call of validators(...) and
\* the setTimeout. A throw of validators(...) rejects the promise before
\* the timer is set, and the await rethrows into the catch block.
validationPromise(engineThrows) ==
    /\ pc = "validators"
    /\ UNCHANGED <<ovars, rvars, cvars>>
    /\ reRegistered' = FALSE
    /\ IF Len(declared) = 0
         THEN UNCHANGED log
         ELSE Logged("validators", ~engineThrows)
    /\ UNCHANGED docStore
    /\ validatorResults' = <<>>
    /\ validatorCount' = Len(declared)
    /\ completedCount' = 0
    /\ IF Len(declared) = 0
         THEN /\ promise' = "resolved"
              /\ waitEndedBy' = "empty"
              /\ countAtEnd' = 0
              /\ pc' = "await"
              /\ UNCHANGED <<engineCalls, outstanding, timer, report>>
         ELSE /\ engineCalls' = engineCalls + 1
              /\ IF engineThrows
                   THEN /\ promise' = "rejected"
                        /\ Catch("validators")
                        /\ UNCHANGED <<outstanding, timer>>
                   ELSE /\ promise' = "pending"
                        /\ outstanding' = Range(declared)
                        /\ timer' = "armed"
                        /\ pc' = "await"
                        /\ UNCHANGED report
              /\ UNCHANGED <<waitEndedBy, countAtEnd>>
    /\ UNCHANGED <<fsWorkspace, fsManifest, declared, globalsSet, cacheErrors,
                   loadStep, problems, fired>>

\* Variant: resolves on the first completion
onValidatorComplete_ResolvesEarly(validator) ==
    /\ validatorResults' = Append(validatorResults, validator)
    /\ completedCount' = completedCount + 1
    /\ Resolve("count", completedCount + 1)

\* Variant: counts the completion without keeping the result
onValidatorComplete_CountOnly(validator) ==
    /\ validatorResults' = validatorResults
    /\ completedCount' = completedCount + 1
    /\ IF completedCount + 1 >= validatorCount
         THEN Resolve("count", completedCount + 1)
         ELSE UNCHANGED <<promise, waitEndedBy, countAtEnd>>

\* Variant: unshift instead of push
onValidatorComplete_Unshift(validator) ==
    /\ validatorResults' = <<validator>> \o validatorResults
    /\ completedCount' = completedCount + 1
    /\ IF completedCount + 1 >= validatorCount
         THEN Resolve("count", completedCount + 1)
         ELSE UNCHANGED <<promise, waitEndedBy, countAtEnd>>

\* Variant: completion is counted per distinct rule, not per invocation
onValidatorComplete_PerRule(validator) ==
    /\ validatorResults' = Append(validatorResults, validator)
    /\ completedCount' =
          Cardinality({ validatorResults'[i].rule :
                          i \in 1..Len(validatorResults') })
    /\ IF completedCount' >= validatorCount
         THEN Resolve("count", completedCount')
         ELSE UNCHANGED <<promise, waitEndedBy, countAtEnd>>

\* const onValidatorComplete = (validator) => { ... }
onValidatorComplete(validator) ==
    /\ validatorResults' = Append(validatorResults, validator)
    /\ completedCount' = completedCount + 1
    /\ IF completedCount + 1 >= validatorCount
         THEN Resolve("count", completedCount + 1)
         ELSE UNCHANGED <<promise, waitEndedBy, countAtEnd>>

\* The third and fourth argument of validators(...): both are
\* onValidatorComplete
SuccessCallback(validator) == onValidatorComplete(validator)

\* Variant: a reject callback that drops the failure
RejectCallback_Dropped(validator) ==
    UNCHANGED <<validatorResults, completedCount, promise, waitEndedBy,
                countAtEnd>>

RejectCallback(validator) == onValidatorComplete(validator)

\* The continuation of `await validationPromise` is a microtask queued by
\* resolve(): it runs before the event loop delivers any further callback.
ContinuationPending == pc = "await" /\ promise = "resolved"

\* The engine invokes a callback again for a rule r it has already
\* reported, while validateManifest waits. validateManifest hands the same
\* function as success and as reject callback and cannot tell a second
\* invocation from a first one. The callbacks are invoked at most once per
\* declared rule in all: the second invocation for r stands for the report
\* of a rule q that never reports.
EngineReportsAgain(r, q, failed, v) ==
    /\ pc = "await"
    /\ promise = "pending"
    /\ r \in Range(declared) \ outstanding
    /\ q \in outstanding
    /\ UNCHANGED <<ovars, rvars, cvars>>
    /\ UNCHANGED reRegistered
    /\ UNCHANGED <<docStore, log>>
    /\ ~ContinuationPending
    /\ outstanding' = outstanding \ {q}
    /\ fired' = Append(fired, v)
    /\ IF failed THEN RejectCallback(v) ELSE SuccessCallback(v)
    /\ UNCHANGED <<pc, fsWorkspace, fsManifest, declared, globalsSet,
                   cacheErrors, loadStep, problems, validatorCount, timer,
                   engineCalls, report>>

\* Variant: the report returned shares validatorResults, so a completion
\* after the return shows in it
EngineReports_LateIntoReport(r, failed, v) ==
    /\ r \in outstanding
    /\ UNCHANGED <<ovars, rvars, cvars>>
    /\ UNCHANGED reRegistered
    /\ UNCHANGED <<docStore, log>>
    /\ ~ContinuationPending
    /\ outstanding' = outstanding \ {r}
    /\ fired' = Append(fired, v)
    /\ IF failed THEN RejectCallback(v) ELSE SuccessCallback(v)
    /\ report' = IF report.kind = "report" /\ report.loaded
                   THEN [report EXCEPT !.problems = problems \o validatorResults']
                   ELSE report
    /\ UNCHANGED <<pc, fsWorkspace, fsManifest, declared, globalsSet,
                   cacheErrors, loadStep, problems, validatorCount, timer,
                   engineCalls>>

\* The engine reports rule r: it invokes the success callback with the
\* rule's result or the reject callback with the rule's failure. Each rule
\* is reported at most once; a rule may stay outstanding for ever.
EngineReports(r, failed, v) ==
    /\ r \in outstanding
    /\ UNCHANGED <<ovars, rvars, cvars>>
    /\ UNCHANGED reRegistered
    /\ UNCHANGED <<docStore, log>>
    /\ ~ContinuationPending
    /\ outstanding' = outstanding \ {r}
    /\ fired' = Append(fired, v)
    /\ IF failed THEN RejectCallback(v) ELSE SuccessCallback(v)
    /\ UNCHANGED <<pc, fsWorkspace, fsManifest, declared, globalsSet,
                   cacheErrors, loadStep, problems, validatorCount, timer,
                   engineCalls, report>>

\* Variant: the timer callback with its test inverted
SafetyTimeout_Inverted ==
    /\ timer = "armed"
    /\ UNCHANGED <<ovars, rvars, cvars>>
    /\ UNCHANGED reRegistered
    /\ UNCHANGED <<docStore, log>>
    /\ ~ContinuationPending
    /\ timer' = "fired"
    /\ IF completedCount >= validatorCount
         THEN Resolve("timer", completedCount)
         ELSE UNCHANGED <<promise, waitEndedBy, countAtEnd>>
    /\ UNCHANGED <<pc, fsWorkspace, fsManifest, declared, globalsSet,
                   cacheErrors, loadStep, problems, validatorCount,
                   completedCount, validatorResults, engineCalls, outstanding,
                   fired, report>>

\* Variant: the timer callback records an entry for the rules it abandons
SafetyTimeout_AddsEntry ==
    /\ timer = "armed"
    /\ UNCHANGED <<ovars, rvars, cvars>>
    /\ UNCHANGED reRegistered
    /\ UNCHANGED <<docStore, log>>
    /\ ~ContinuationPending
    /\ timer' = "fired"
    /\ IF completedCount < validatorCount
         THEN /\ Resolve("timer", completedCount)
              /\ validatorResults' = Append(validatorResults,
                    [kind |-> "rule", rule |-> <<"t", "i", "m", "e", "o", "u", "t">>,
                     id |-> <<"t", "i", "m", "e", "o", "u", "t">>, hasId |-> TRUE,
                     hasItems |-> FALSE, items |-> 0, error |-> TRUE])
         ELSE UNCHANGED <<promise, waitEndedBy, countAtEnd, validatorResults>>
    /\ UNCHANGED <<pc, fsWorkspace, fsManifest, declared, globalsSet,
                   cacheErrors, loadStep, problems, validatorCount,
                   completedCount, engineCalls, outstanding,
                   fired, report>>

\* The setTimeout callback, 10 s after the executor ran
SafetyTimeout ==
    /\ timer = "armed"
    /\ UNCHANGED <<ovars, rvars, cvars>>
    /\ UNCHANGED reRegistered
    /\ UNCHANGED <<docStore, log>>
    /\ ~ContinuationPending
    /\ timer' = "fired"
    /\ IF completedCount < validatorCount
         THEN Resolve("timer", completedCount)
         ELSE UNCHANGED <<promise, waitEndedBy, countAtEnd>>
    /\ UNCHANGED <<pc, fsWorkspace, fsManifest, declared, globalsSet,
                   cacheErrors, loadStep, problems, validatorCount,
                   completedCount, validatorResults, engineCalls, outstanding,
                   fired, report>>

\* Variant: the aggregation reads the collector again
Aggregate_RereadsCollector ==
    /\ pc = "await"
    /\ UNCHANGED <<ovars, rvars, cvars>>
    /\ UNCHANGED reRegistered
    /\ promise = "resolved"
    /\ Logged("aggregate", ~FilterThrows(validatorResults))
    /\ UNCHANGED docStore
    /\ IF FilterThrows(validatorResults)
         THEN Catch("aggregate")
         ELSE /\ report' = BuildReport([i \in 1..Len(cacheErrors) |->
                                          DiagEntry(cacheErrors[i])],
                                      validatorResults)
              /\ pc' = "done"
    /\ UNCHANGED <<fsWorkspace, fsManifest, declared, globalsSet, cacheErrors,
                   loadStep, problems, validatorCount, completedCount,
                   validatorResults, promise, timer, engineCalls, outstanding,
                   fired, waitEndedBy, countAtEnd>>

\* After the await: combine problems, filter the real issues, return
Aggregate ==
    /\ pc = "await"
    /\ UNCHANGED <<ovars, rvars, cvars>>
    /\ UNCHANGED reRegistered
    /\ promise = "resolved"
    /\ Logged("aggregate", ~FilterThrows(validatorResults))
    /\ UNCHANGED docStore
    /\ IF FilterThrows(validatorResults)
         THEN Catch("aggregate")
         ELSE /\ report' = BuildReport(problems, validatorResults)
              /\ pc' = "done"
    /\ UNCHANGED <<fsWorkspace, fsManifest, declared, globalsSet, cacheErrors,
                   loadStep, problems, validatorCount, completedCount,
                   validatorResults, promise, timer, engineCalls, outstanding,
                   fired, waitEndedBy, countAtEnd>>

Next ==
    \/ validateManifest
    \/ initializeDocHubEnvironment
    \/ \E found \in BOOLEAN : getDocHubPath(found)
    \/ \E ok \in BOOLEAN : ImportModules(ok)
    \/ errorClear
    \/ \E ok \in BOOLEAN : LoadStep(ok)
    \/ \E k \in DiagKeys : registerError(k)
    \/ \E ok \in BOOLEAN : entities(ok)
    \/ \E ok \in BOOLEAN : CollectProblems(ok)
    \/ \E engineThrows \in BOOLEAN : validationPromise(engineThrows)
    \/ \E r \in RuleIdPool :
          \/ \E v \in SuccessResults(r) : EngineReports(r, FALSE, v)
          \/ \E v \in FailureResults(r) : EngineReports(r, TRUE, v)
    \/ SafetyTimeout
    \/ Aggregate

Spec == Init /\ [][Next]_vars

\* The same call with an engine that may invoke the callbacks more than
\* once for a rule
RepeatNext ==
    \/ Next
    \/ \E r, q \in RuleIdPool :
          \/ \E v \in SuccessResults(r) : EngineReportsAgain(r, q, FALSE, v)
          \/ \E v \in FailureResults(r) : EngineReportsAgain(r, q, TRUE, v)

\* A first call in a fresh process on an existing workspace
RepeatInit == Init /\ fsWorkspace /\ fsManifest /\ cacheErrors = <<>>

RepeatSpec == RepeatInit /\ [][RepeatNext]_vars

\* The same call with a parser that may register a load error while the
\* rules are evaluated
LateNext ==
    \/ Next
    \/ \E k \in DiagKeys : registerErrorLate(k)

LateSpec == RepeatInit /\ [][LateNext]_vars

\* The event loop runs a due timer and a queued continuation; nothing
\* obliges the engine to report a rule.
LiveSpec ==
    Spec /\ WF_vars(SafetyTimeout) /\ WF_vars(Aggregate)

\* ===================================================================
\* Two validateManifest calls in one process. The module cache gives both
\* calls the same parser and the same cache object; a call is suspended
\* only at an await.

\* The main call has not started
MainIdle ==
    /\ pc = "entry"
    /\ fsWorkspace = TRUE
    /\ fsManifest = TRUE
    /\ declared = <<>>
    /\ globalsSet = FALSE
    /\ cacheErrors = <<>>
    /\ loadStep = 1
    /\ problems = <<>>
    /\ validatorCount = 0
    /\ completedCount = 0
    /\ validatorResults = <<>>
    /\ promise = "none"
    /\ timer = "unset"
    /\ engineCalls = 0
    /\ outstanding = {}
    /\ fired = <<>>
    /\ waitEndedBy = "none"
    /\ countAtEnd = 0
    /\ report = NoReport
    /\ docStore = {}
    /\ log = <<>>
    /\ reRegistered = FALSE

OverlapInit == MainIdle /\ OverlapIdle /\ ResolverIdle /\ CliIdle

\* Another call is between its first await and its return
OtherSuspended(s) ==
    \E t \in Sessions \ {s} : opc[t] \notin {"idle", "done"}

\* From the entry to the first await import(...): the existence checks
\* pass and initializeDocHubEnvironment assigns global.$paths
OverlapStart(s) ==
    /\ opc[s] = "idle"
    /\ opc' = [opc EXCEPT ![s] = "imports"]
    /\ gPaths' = s
    /\ overlapped' = (overlapped \/ OtherSuspended(s))
    /\ UNCHANGED <<oStep, sCache, sStore, oProblems, oManifest, oOwn, oReport>>
    /\ UNCHANGED <<mvars, rvars, cvars>>

\* Variant: manifestParser.clean() is not called
OverlapClear_KeepsStore(s, ok) ==
    /\ opc[s] = "imports"
    /\ sCache' = <<>>
    /\ UNCHANGED sStore
    /\ IF ok
         THEN /\ opc' = [opc EXCEPT ![s] = "load"]
              /\ oStep' = [oStep EXCEPT ![s] = 2]
              /\ UNCHANGED oReport
         ELSE /\ opc' = [opc EXCEPT ![s] = "done"]
              /\ oReport' = [oReport EXCEPT ![s] = "degenerate"]
              /\ UNCHANGED oStep
    /\ UNCHANGED <<gPaths, oProblems, oManifest, oOwn, overlapped>>
    /\ UNCHANGED <<mvars, rvars, cvars>>

\* After the last import: cache.errorClear(), then manifestParser.clean()
\* is entered in the same turn of the event loop
OverlapClear(s, ok) ==
    /\ opc[s] = "imports"
    /\ sCache' = <<>>
    /\ sStore' = StoreAfter("clean", sStore)
    /\ IF ok
         THEN /\ opc' = [opc EXCEPT ![s] = "load"]
              /\ oStep' = [oStep EXCEPT ![s] = 2]
              /\ UNCHANGED oReport
         ELSE /\ opc' = [opc EXCEPT ![s] = "done"]
              /\ oReport' = [oReport EXCEPT ![s] = "degenerate"]
              /\ UNCHANGED oStep
    /\ UNCHANGED <<gPaths, oProblems, oManifest, oOwn, overlapped>>
    /\ UNCHANGED <<mvars, rvars, cvars>>

\* One awaited step startLoad .. stopLoad of call s returns or throws;
\* import merges the documents of the call's workspace into the store
OverlapLoadStep(s, ok) ==
    /\ opc[s] = "load"
    /\ IF ok
         THEN /\ sStore' = IF LoadStepName[oStep[s]] = "import"
                             THEN sStore \cup {s} ELSE sStore
              /\ oStep' = [oStep EXCEPT ![s] = oStep[s] + 1]
              /\ opc' = [opc EXCEPT
                           ![s] = IF oStep[s] = LoadSteps THEN "collect" ELSE "load"]
              /\ UNCHANGED oReport
         ELSE /\ opc' = [opc EXCEPT ![s] = "done"]
              /\ oReport' = [oReport EXCEPT ![s] = "degenerate"]
              /\ UNCHANGED <<sStore, oStep>>
    /\ UNCHANGED <<gPaths, sCache, oProblems, oManifest, oOwn, overlapped>>
    /\ UNCHANGED <<mvars, rvars, cvars>>

\* The parser registers a load error of call s while its import,
\* checkAwaitedPackages or checkLoaded is running
OverlapRegisterError(s, k) ==
    /\ opc[s] = "load"
    /\ oStep[s] \in 3..5
    /\ sCache' = PutError(sCache, CacheEntry(k, s))
    /\ sCache' # sCache
    /\ oOwn' = [oOwn EXCEPT ![s] = oOwn[s] \cup {k}]
    /\ UNCHANGED <<opc, oStep, gPaths, sStore, oProblems, oManifest, oReport,
                   overlapped>>
    /\ UNCHANGED <<mvars, rvars, cvars>>

\* After stopLoad: manifest = manifestParser.manifest, entities(manifest),
\* problems = the entries of cache.errors; the report lists problems first
OverlapCollect(s) ==
    /\ opc[s] = "collect"
    /\ oManifest' = [oManifest EXCEPT ![s] = sStore]
    /\ oProblems' = [oProblems EXCEPT
                       ![s] = [i \in 1..Len(sCache) |-> DiagEntry(sCache[i])]]
    /\ oReport' = [oReport EXCEPT ![s] = "report"]
    /\ opc' = [opc EXCEPT ![s] = "done"]
    /\ UNCHANGED <<oStep, gPaths, sCache, sStore, oOwn, overlapped>>
    /\ UNCHANGED <<mvars, rvars, cvars>>

OverlapNext ==
    \E s \in Sessions :
        \/ OverlapStart(s)
        \/ \E ok \in BOOLEAN : OverlapClear(s, ok)
        \/ \E ok \in BOOLEAN : OverlapLoadStep(s, ok)
        \/ \E k \in DiagKeys : OverlapRegisterError(s, k)
        \/ OverlapCollect(s)

OverlapSpec == OverlapInit /\ [][OverlapNext]_vars

\* ===================================================================
\* The import walk behind manifestParser.import('file:///$root$'):
\* references are resolved as independent tasks, a fetch is a suspension
\* point, a fragment is merged before its references are walked.

ResolverInit == MainIdle /\ OverlapIdle /\ ResolverIdle /\ CliIdle

\* The fragments whose reference started the resolution of l
Owners(l) == { p \in Locators : l \in rOpen[p] }

RECURSIVE AncestorWithin(_, _, _)
\* a is p or a fragment on the chain of owners above p
AncestorWithin(a, p, n) ==
    \/ a = p
    \/ n > 0 /\ \E q \in Owners(p) : AncestorWithin(a, q, n - 1)

IsAncestor(a, p) == AncestorWithin(a, p, MaxFragments)

\* The walk and the settle step are running
Resolving == rpc \in {"walking", "settling"}

\* mark in flight and start the fetch
BeginFetch(l) ==
    /\ rInFlight' = rInFlight \cup {l}
    /\ rFetching' = rFetching \cup {l}
    /\ rFetched' = rFetched \cup {l}
    /\ rRefetched' = IF l \in rFetched THEN rRefetched \cup {l} ELSE rRefetched
    /\ UNCHANGED rAwaited

\* mark in flight and leave the fetch to be awaited
Defer(l) ==
    /\ rInFlight' = rInFlight \cup {l}
    /\ rAwaited' = rAwaited \cup {l}
    /\ rFetched' = rFetched \cup {l}
    /\ rRefetched' = IF l \in rFetched THEN rRefetched \cup {l} ELSE rRefetched
    /\ UNCHANGED rFetching

\* The collector's insert, keyed by the locator: idempotent
Record(d, key) == [d EXCEPT ![key] = 1]

\* A reference to r, met in fragment p, to a locator that another import
\* path has reached, or to an ancestor in flight
NoteSkip(p, r) ==
    /\ rCycleSkip' = (rCycleSkip \/ (r \in rInFlight /\ IsAncestor(r, p)))
    /\ rSharedSkip' = (rSharedSkip \/
                         ((r \in rMerged \/ r \in rInFlight) /\ ~IsAncestor(r, p)))

\* resolve(rootLocator)
resolve ==
    /\ rpc = "start"
    /\ rpc' = "walking"
    /\ BeginFetch(Root)
    /\ UNCHANGED <<rMerged, rTodo, rOpen, rDiag, rRemerged, rFailed, rCycleSkip,
                   rSharedSkip, rLate>>
    /\ UNCHANGED <<mvars, ovars, cvars>>

\* Variant: only a merged locator is skipped
Encounter_SkipsMergedOnly(p, r, deferred) ==
    /\ Resolving
    /\ r \in rTodo[p]
    /\ \A q \in rTodo[p] : r <= q
    /\ rTodo' = [rTodo EXCEPT ![p] = rTodo[p] \ {r}]
    /\ NoteSkip(p, r)
    /\ IF r \in rMerged
         THEN /\ ~deferred
              /\ UNCHANGED <<rInFlight, rFetching, rAwaited, rFetched,
                             rRefetched, rOpen>>
         ELSE IF deferred
           THEN Defer(r) /\ UNCHANGED rOpen
           ELSE /\ BeginFetch(r)
                /\ rOpen' = [rOpen EXCEPT ![p] = rOpen[p] \cup {r}]
    /\ UNCHANGED <<rpc, rMerged, rDiag, rRemerged, rFailed, rLate>>
    /\ UNCHANGED <<mvars, ovars, cvars>>

\* Variant: only a locator in flight is skipped
Encounter_SkipsInFlightOnly(p, r, deferred) ==
    /\ Resolving
    /\ r \in rTodo[p]
    /\ \A q \in rTodo[p] : r <= q
    /\ rTodo' = [rTodo EXCEPT ![p] = rTodo[p] \ {r}]
    /\ NoteSkip(p, r)
    /\ IF r \in rInFlight
         THEN /\ ~deferred
              /\ UNCHANGED <<rInFlight, rFetching, rAwaited, rFetched,
                             rRefetched, rOpen>>
         ELSE IF deferred
           THEN Defer(r) /\ UNCHANGED rOpen
           ELSE /\ BeginFetch(r)
                /\ rOpen' = [rOpen EXCEPT ![p] = rOpen[p] \cup {r}]
    /\ UNCHANGED <<rpc, rMerged, rDiag, rRemerged, rFailed, rLate>>
    /\ UNCHANGED <<mvars, ovars, cvars>>

\* The walk meets the next reference r of the merged fragment p (the
\* references of a fragment are walked in the order of their locators):
\* merged, skip; in flight, skip without error; otherwise mark in flight
\* and fetch, or, when the target cannot be produced now, keep it as an
\* awaited reference and go on
Encounter(p, r, deferred) ==
    /\ Resolving
    /\ r \in rTodo[p]
    /\ \A q \in rTodo[p] : r <= q
    /\ rTodo' = [rTodo EXCEPT ![p] = rTodo[p] \ {r}]
    /\ NoteSkip(p, r)
    /\ IF r \in rMerged \/ r \in rInFlight
         THEN /\ ~deferred
              /\ UNCHANGED <<rInFlight, rFetching, rAwaited, rFetched,
                             rRefetched, rOpen>>
         ELSE IF deferred
           THEN Defer(r) /\ UNCHANGED rOpen
           ELSE /\ BeginFetch(r)
                /\ rOpen' = [rOpen EXCEPT ![p] = rOpen[p] \cup {r}]
    /\ UNCHANGED <<rpc, rMerged, rDiag, rRemerged, rFailed, rLate>>
    /\ UNCHANGED <<mvars, ovars, cvars>>

\* The reference to l is resolved for the fragment that started it; with
\* the root resolved the primary walk is complete
Settled(l) ==
    IF l = Root
      THEN rpc' = "settling" /\ UNCHANGED rOpen
      ELSE /\ rOpen' = [p \in Locators |-> rOpen[p] \ {l}]
           /\ UNCHANGED rpc

\* The fragment of l is parsed and merged and its references wait to be
\* walked
Merge(l, refs) ==
    /\ rMerged' = rMerged \cup {l}
    /\ rRemerged' = IF l \in rMerged THEN rRemerged \cup {l} ELSE rRemerged
    /\ rTodo' = [rTodo EXCEPT ![l] = refs]

\* A diagnostic keyed by the locator; the branch is absent from the merge
Fail(l) ==
    /\ rInFlight' = rInFlight \ {l}
    /\ rDiag' = Record(rDiag, l)
    /\ rFailed' = rFailed \cup {l}

\* The fetch of l completes
FetchMerged(l, refs) ==
    /\ l \in rFetching
    /\ rFetching' = rFetching \ {l}
    /\ Merge(l, refs)
    /\ UNCHANGED <<rpc, rInFlight, rAwaited, rOpen, rDiag, rFetched,
                   rRefetched, rFailed, rCycleSkip, rSharedSkip, rLate>>
    /\ UNCHANGED <<mvars, ovars, cvars>>

\* Variant: a failed fetch ends the resolution
FetchFails_Aborts(l) ==
    /\ l \in rFetching
    /\ rFetching' = rFetching \ {l}
    /\ Fail(l)
    /\ rpc' = "done"
    /\ UNCHANGED <<rMerged, rAwaited, rTodo, rOpen, rFetched, rRefetched,
                   rRemerged, rCycleSkip, rSharedSkip, rLate>>
    /\ UNCHANGED <<mvars, ovars, cvars>>

\* The fetch or the parse of l fails and the walk goes on
FetchFails(l) ==
    /\ l \in rFetching
    /\ rFetching' = rFetching \ {l}
    /\ Fail(l)
    /\ Settled(l)
    /\ UNCHANGED <<rMerged, rAwaited, rTodo, rFetched, rRefetched, rRemerged,
                   rCycleSkip, rSharedSkip, rLate>>
    /\ UNCHANGED <<mvars, ovars, cvars>>

\* The settle step finds the awaited reference to l resolved: promoted to
\* a real merge
AwaitedResolves(l, refs) ==
    /\ rpc = "settling"
    /\ l \in rAwaited
    /\ rAwaited' = rAwaited \ {l}
    /\ Merge(l, refs)
    /\ rLate' = rLate \cup {"promoted"}
    /\ UNCHANGED <<rpc, rInFlight, rFetching, rOpen, rDiag, rFetched,
                   rRefetched, rFailed, rCycleSkip, rSharedSkip>>
    /\ UNCHANGED <<mvars, ovars, cvars>>

\* The settle step finds the awaited reference to l failed or still
\* pending: a diagnostic
AwaitedFails(l) ==
    /\ rpc = "settling"
    /\ l \in rAwaited
    /\ rAwaited' = rAwaited \ {l}
    /\ Fail(l)
    /\ rLate' = rLate \cup {"diagnostic"}
    /\ UNCHANGED <<rpc, rMerged, rFetching, rTodo, rOpen, rFetched, rRefetched,
                   rRemerged, rCycleSkip, rSharedSkip>>
    /\ UNCHANGED <<mvars, ovars, cvars>>

\* Every reference of the merged fragment l is resolved: unmark l
Unmark(l) ==
    /\ Resolving
    /\ l \in rInFlight
    /\ l \in rMerged
    /\ l \notin rFetching \cup rAwaited
    /\ rTodo[l] = {}
    /\ rOpen[l] = {}
    /\ rInFlight' = rInFlight \ {l}
    /\ Settled(l)
    /\ UNCHANGED <<rMerged, rFetching, rAwaited, rTodo, rDiag, rFetched,
                   rRefetched, rRemerged, rFailed, rCycleSkip, rSharedSkip,
                   rLate>>
    /\ UNCHANGED <<mvars, ovars, cvars>>

\* Variant: the settle step returns with awaited references pending
checkAwaitedPackages_DropsPending ==
    /\ rpc = "settling"
    /\ rInFlight \subseteq rAwaited
    /\ rAwaited' = {}
    /\ rInFlight' = {}
    /\ rpc' = "done"
    /\ UNCHANGED <<rMerged, rFetching, rTodo, rOpen, rDiag, rFetched,
                   rRefetched, rRemerged, rFailed, rCycleSkip, rSharedSkip,
                   rLate>>
    /\ UNCHANGED <<mvars, ovars, cvars>>

\* The settle step returns when no awaited reference is pending and
\* nothing is in flight; the session can be closed
checkAwaitedPackages ==
    /\ rpc = "settling"
    /\ rAwaited = {}
    /\ rInFlight = {}
    /\ rpc' = "done"
    /\ UNCHANGED <<rMerged, rInFlight, rFetching, rAwaited, rTodo, rOpen, rDiag,
                   rFetched, rRefetched, rRemerged, rFailed, rCycleSkip,
                   rSharedSkip, rLate>>
    /\ UNCHANGED <<mvars, ovars, cvars>>

ResolverNext ==
    \/ resolve
    \/ \E p \in Locators : \E r \in Locators : \E deferred \in BOOLEAN :
          Encounter(p, r, deferred)
    \/ \E l \in Locators : \E refs \in SUBSET Locators : FetchMerged(l, refs)
    \/ \E l \in Locators : FetchFails(l)
    \/ \E l \in Locators : \E refs \in SUBSET Locators : AwaitedResolves(l, refs)
    \/ \E l \in Locators : AwaitedFails(l)
    \/ \E l \in Locators : Unmark(l)
    \/ checkAwaitedPackages

ResolverSpec == ResolverInit /\ [][ResolverNext]_vars

\* The event loop runs every completion and every continuation
ResolverLive == ResolverSpec /\ WF_vars(ResolverNext)

\* ------------------------------------------------------- the command line
\* Values of --format
FormatChoices == {"text", "json", "JSON", "xml"}

\* String.prototype.toLowerCase on the values of --format
toLowerCase(f) == IF f = "JSON" THEN "json" ELSE f

\* Where --output points: not given, a file outside the workspace directory,
\* a file inside the workspace directory
OutputChoices == {"none", "outside", "inside"}

OptionChoices ==
    [format : FormatChoices, verbose : BOOLEAN, output : OutputChoices]

\* The lists Object.keys(cache.errors).map(...) can yield: one entry per key
DiagLists ==
    { [i \in 1..Len(ks) |-> DiagEntry(CacheEntry(ks[i], "session"))] :
        ks \in UNION { { s \in [1..n -> DiagKeys] :
                           \A i, j \in 1..n : i < j => s[i] < s[j] }
                       : n \in 0..MaxDiag } }

\* The lists validatorResults can hold for the declared rules ids: one
\* result per rule
RECURSIVE ResultListsOf(_)
ResultListsOf(ids) ==
    IF ids = <<>> THEN { <<>> }
    ELSE { <<v>> \o rest :
             v \in SuccessResults(Head(ids)) \cup FailureResults(Head(ids)),
             rest \in ResultListsOf(Tail(ids)) }

ResultLists == UNION { ResultListsOf(ids) : ids \in DeclaredChoices }

\* What awaiting validateManifest(...) can give program.action: one of the
\* two reports (the degenerate one also when the filter of the aggregation
\* throws), or an exception thrown before the try block
ReturnedReports ==
    { BuildReport(d, r) :
        d \in DiagLists, r \in { x \in ResultLists : ~FilterThrows(x) } }
    \cup { DegenerateReport(m) : m \in {"import", "entities", "aggregate"} }

ThrownErrors ==
    { [kind |-> "exception", message |-> m] :
        m \in {"Workspace directory not found", "Root manifest not found",
               "DocHub not found"} }

\* The id of a load diagnostic: derived from its key, starts with '$error'
DiagnosticId(key) == ErrorPrefix \o <<".", key>>

\* The number of items of a load diagnostic: it carries the failure as an item
DiagnosticItems == 1

\* problem.id as formatText reads it; the critical error has the id
\* 'critical-error'
ProblemId(problem) ==
    IF problem.kind = "rule" THEN problem.id
    ELSE IF problem.kind = "diagnostic" THEN DiagnosticId(problem.key)
    ELSE <<"c", "r", "i", "t", "i", "c", "a", "l", "-",
           "e", "r", "r", "o", "r">>

\* problem.items.length as formatText reads it, 0 if there is no items
\* property; the critical error has no items
ProblemItems(problem) ==
    IF problem.kind = "rule"
      THEN (IF problem.hasItems THEN problem.items ELSE 0)
    ELSE IF problem.kind = "diagnostic" THEN DiagnosticItems
    ELSE 0

\* Variant: the filter looks at the id only
IsRealProblem_IdOnly(problem) ==
    ~(Len(ProblemId(problem)) > 0
      /\ StartsWith(ProblemId(problem), ErrorPrefix))

\* Variant: the filter looks at the items only
IsRealProblem_ItemsOnly(problem) == ProblemItems(problem) > 0

\* The filter of formatText: the problems shown under "Found n validation
\* issue(s)"
IsRealProblem(problem) ==
    /\ ~(Len(ProblemId(problem)) > 0
         /\ StartsWith(ProblemId(problem), ErrorPrefix))
    /\ ProblemItems(problem) > 0

\* problem.error is truthy: a rule result that failed, the critical error
HasError(problem) ==
    IF problem.kind = "rule" THEN problem.error ELSE problem.kind = "critical"

\* formatText(result, options): the manifest line, the summary line (only
\* with validation errors), the problems listed, the listed problems whose
\* error line is printed (followed by the stack when verbose) and the
\* final verdict
formatText(r) ==
    [kind    |-> "text",
     loaded  |-> r.loaded,
     summary |-> IF r.stats.validationErrors > 0
                   THEN <<r.stats.validationErrors>> ELSE <<>>,
     listed  |-> SelectSeq(r.problems, IsRealProblem),
     errors  |-> SelectSeq(SelectSeq(r.problems, IsRealProblem), HasError),
     passed  |-> r.success]

\* formatJSON(result, options): every problem of the report
formatJSON(r) ==
    [kind     |-> "json",
     success  |-> r.success,
     loaded   |-> r.loaded,
     stats    |-> r.stats,
     problems |-> r.problems]

\* format(result, formatType, options)
format(r, formatType) ==
    IF toLowerCase(formatType) = "json" THEN formatJSON(r) ELSE formatText(r)

\* Variant: loading errors are looked at before success
ExitCodeFor_LoadingFirst(r) ==
    IF r.stats.loadingErrors > 0 THEN 2
    ELSE IF r.success THEN 0 ELSE 1

\* The argument of process.exit after the output was written
ExitCodeFor(r) ==
    IF r.success THEN 0
    ELSE IF r.stats.loadingErrors > 0 THEN 2 ELSE 1

\* The catch block of program.action: console.error is whatever it is bound
\* to when the block runs
CatchFatal(binding, message) ==
    /\ stderr' =
         IF binding = "original"
           THEN stderr \o <<[line |-> "Fatal error", message |-> message]>>
                \o (IF options.verbose
                      THEN <<[line |-> "stack", message |-> message]>>
                      ELSE <<>>)
           ELSE stderr
    /\ exitCode' = {2}
    /\ caught' = {message}
    /\ cpc' = "exited"

\* One invocation: any options, nothing run yet
CliInit ==
    /\ MainIdle
    /\ OverlapIdle
    /\ ResolverIdle
    /\ cpc = "start"
    /\ options \in OptionChoices
    /\ consoleLog = "original"
    /\ consoleError = "original"
    /\ result = NoReport
    /\ output = NoReport
    /\ stdout = <<>>
    /\ stderr = <<>>
    /\ written = {}
    /\ exitCode = {}
    /\ caught = {}

\* program.action up to the await: the format check, the console
\* overrides and the call of validateManifest
programAction ==
    /\ cpc = "start"
    /\ UNCHANGED <<mvars, ovars, rvars>>
    /\ IF toLowerCase(options.format) \notin {"text", "json"}
         THEN /\ stderr' = Append(stderr, [line |-> "Invalid format",
                                           message |-> options.format])
              /\ exitCode' = {2}
              /\ cpc' = "exited"
              /\ UNCHANGED <<consoleLog, consoleError, stdout>>
         ELSE /\ consoleLog' = IF options.verbose THEN consoleLog ELSE "noop"
              /\ consoleError' =
                   IF options.verbose THEN consoleError ELSE "noop"
              /\ stdout' = IF options.verbose
                             THEN Append(stdout, [line |-> "Starting validation"])
                             ELSE stdout
              /\ cpc' = "validating"
              /\ UNCHANGED <<stderr, exitCode>>
    /\ UNCHANGED <<options, result, output, written, caught>>

\* validateManifest returned a report r: restore the console, format,
\* write or print the output, exit. fs.writeFileSync may throw
\* (writeOk = FALSE).
validateManifestReturns ==
    /\ cpc = "validating"
    /\ UNCHANGED <<mvars, ovars, rvars>>
    /\ \E r \in ReturnedReports, writeOk \in BOOLEAN :
         /\ options.output = "none" => writeOk
         /\ result' = r
         /\ consoleLog' = "original"
         /\ consoleError' = "original"
         /\ output' = format(r, options.format)
         /\ IF ~writeOk
              THEN /\ CatchFatal("original", "write failed")
                   /\ UNCHANGED <<stdout, written>>
              ELSE /\ IF options.output # "none"
                        THEN /\ written' = written \cup {options.output}
                             /\ stdout' =
                                  IF options.verbose
                                    THEN Append(stdout,
                                                [line |-> "Output written"])
                                    ELSE stdout
                        ELSE /\ stdout' = Append(stdout, [line |-> "output",
                                                          text |-> output'])
                             /\ UNCHANGED written
                   /\ exitCode' = {ExitCodeFor(r)}
                   /\ cpc' = "exited"
                   /\ UNCHANGED <<stderr, caught>>
    /\ UNCHANGED options

\* validateManifest threw e: the statements after the await are skipped
\* and the catch block runs
validateManifestThrows(e) ==
    /\ cpc = "validating"
    /\ UNCHANGED <<mvars, ovars, rvars>>
    /\ result' = e
    /\ CatchFatal(consoleError, e.message)
    /\ UNCHANGED <<options, consoleLog, consoleError, output, stdout, written>>

CliNext ==
    \/ programAction
    \/ validateManifestReturns
    \/ \E e \in ThrownErrors : validateManifestThrows(e)

CliSpec == CliInit /\ [][CliNext]_vars

\* ===================================================================
\* Properties
\* ===================================================================

\* The report of a run that reached normal aggregation
NormalReport == report.kind = "report" /\ report.loaded

IsRule(p) == p.kind = "rule"

IsDiagnostic(p) == p.kind = "diagnostic"

\* The rule results / load diagnostics listed in the report
ReportedRules == SelectSeq(report.problems, IsRule)

ReportedDiagnostics == SelectSeq(report.problems, IsDiagnostic)

\* The callback arguments that had arrived when the wait ended
CollectedAtEnd == SubSeq(fired, 1, countAtEnd)

\* id starts with '$error', character by character
DiagnosticTagged(id) ==
    \A i \in 1..Len(ErrorPrefix) : i <= Len(id) /\ id[i] = ErrorPrefix[i]

\* A rule result with at least one item and an id that is not tagged
RealIssue(v) == v.hasItems /\ v.items >= 1 /\ ~DiagnosticTagged(v.id)

RealIssuesAtEnd ==
    { i \in 1..Len(CollectedAtEnd) : RealIssue(CollectedAtEnd[i]) }

\* C1: on a normally aggregated report, success is true if and only if no
\* collected rule result has at least one item and an id that does not
\* start with '$error'.
C1_SuccessIffNoRealIssue ==
    NormalReport => (report.success <=> RealIssuesAtEnd = {})

\* C1 witness: two rule results, one empty and one with one item and an
\* untagged id; success is false and validationErrors is 1.
C1_Witness ==
    /\ NormalReport
    /\ Len(ReportedRules) = 2
    /\ \E i, j \in 1..2 :
          /\ ReportedRules[i].hasItems /\ ReportedRules[i].items = 0
          /\ ReportedRules[j].items = 1 /\ ~DiagnosticTagged(ReportedRules[j].id)
    /\ ~report.success
    /\ report.stats.validationErrors = 1

\* C2: on a normally aggregated report, totalIssues is the length of
\* problems, loadingErrors the number of diagnostics read from the
\* collector, validationErrors the number of untagged rule results with an
\* item, and problems is the diagnostics followed by the rule results.
C2_StatsMatchProblems ==
    NormalReport =>
        /\ report.stats.totalIssues = Len(report.problems)
        /\ report.stats.loadingErrors = Len(problems)
        /\ report.stats.loadingErrors = Len(ReportedDiagnostics)
        /\ report.stats.validationErrors = Cardinality(RealIssuesAtEnd)
        /\ report.problems = problems \o CollectedAtEnd
        /\ report.stats.totalIssues =
              report.stats.loadingErrors + Len(ReportedRules)

\* C2 witness: a report with a diagnostic, two rule results and a real issue
C2_Witness ==
    /\ NormalReport
    /\ report.stats.loadingErrors >= 1
    /\ Len(ReportedRules) = 2
    /\ report.stats.validationErrors >= 1

\* C3: tagged rule results with items, and load diagnostics, never raise
\* validationErrors and never make success false: validationErrors counts
\* untagged rule results only, and a report whose untagged rule results
\* have no items has success true and validationErrors 0.
C3_DiagnosticsExcluded ==
    NormalReport =>
        LET untagged == { i \in 1..Len(ReportedRules) :
                             ~DiagnosticTagged(ReportedRules[i].id) }
        IN  /\ report.stats.validationErrors <= Cardinality(untagged)
            /\ (\A i \in untagged :
                    ~ReportedRules[i].hasItems \/ ReportedRules[i].items = 0)
                => (report.success /\ report.stats.validationErrors = 0)

\* C3 witness: a tagged rule result with an item next to a load
\* diagnostic, in a report that passes
C3_Witness ==
    /\ NormalReport
    /\ report.success
    /\ report.stats.validationErrors = 0
    /\ report.stats.loadingErrors >= 1
    /\ \E i \in 1..Len(ReportedRules) :
          /\ DiagnosticTagged(ReportedRules[i].id)
          /\ ReportedRules[i].hasItems /\ ReportedRules[i].items >= 1

\* The engine has been started for N > 0 rules and did not throw
Evaluating == validatorCount > 0 /\ promise \in {"pending", "resolved"}

\* C4: with N > 0 rules the wait has ended exactly when N completions
\* have been counted or the timer has fired; it ends by the N-th completion
\* or by the timer firing with fewer than N counted, and no report is
\* built before.
C4_WaitEndsOnCountOrTimer ==
    /\ Evaluating =>
          /\ (promise = "resolved")
                <=> (completedCount >= validatorCount \/ timer = "fired")
          /\ promise = "resolved" =>
                \/ waitEndedBy = "count" /\ countAtEnd = validatorCount
                \/ /\ waitEndedBy = "timer" /\ timer = "fired"
                   /\ countAtEnd < validatorCount
    /\ (Evaluating /\ pc = "done") =>
          (completedCount >= validatorCount \/ timer = "fired")

\* C4 witness: the report built after the second of two completions, with
\* the timer still armed
C4_Witness ==
    /\ NormalReport
    /\ validatorCount = 2
    /\ waitEndedBy = "count"
    /\ timer = "armed"

\* C5: rule evaluation terminates: once validateManifest waits for the
\* rules it eventually returns a report, whichever rules never report.
C5_EvaluationTerminates == (pc = "await") ~> (pc = "done")

\* C5 witness: a report returned while a rule is still outstanding
C5_Witness ==
    /\ pc = "done"
    /\ NormalReport
    /\ waitEndedBy = "timer"
    /\ outstanding # {}

\* The rules that had not reported when the wait ended
HungAtEnd ==
    Range(declared) \ { CollectedAtEnd[i].rule : i \in 1..Len(CollectedAtEnd) }

\* C6: when the timer ends the wait with N-1 rules completed, the report
\* holds exactly those N-1 results after the diagnostics, nothing for the
\* hung rule, no extra entry, and the engine was called once.
C6_TimeoutKeepsCompleted ==
    (NormalReport /\ waitEndedBy = "timer" /\ countAtEnd = validatorCount - 1) =>
        /\ ReportedRules = CollectedAtEnd
        /\ Len(ReportedRules) = validatorCount - 1
        /\ Cardinality(HungAtEnd) = 1
        /\ \A i \in 1..Len(report.problems) :
              /\ report.problems[i].kind \in {"diagnostic", "rule"}
              /\ report.problems[i].kind = "rule" =>
                    /\ report.problems[i].rule \notin HungAtEnd
                    /\ report.problems[i].id \notin HungAtEnd
        /\ Len(report.problems) = Len(problems) + validatorCount - 1
        /\ engineCalls = 1

\* C6 witness: two rules, one reported, the timer fired, the report built
C6_Witness ==
    /\ NormalReport
    /\ waitEndedBy = "timer"
    /\ validatorCount = 2
    /\ countAtEnd = 1
    /\ Len(ReportedRules) = 1
    /\ Cardinality(outstanding) = 1

\* C7: with no rule the wait resolves at once with no rule result: the
\* engine is never called and the timer never started.
C7_ZeroRuleFastPath ==
    Len(declared) = 0 =>
        /\ engineCalls = 0
        /\ timer = "unset"
        /\ promise \in {"none", "resolved"}
        /\ promise = "resolved" => waitEndedBy = "empty"
        /\ pc \in {"await", "done"} /\ promise # "none" => validatorResults = <<>>
        /\ NormalReport => ReportedRules = <<>>

\* C7 witness: the report of a run without rules
C7_Witness ==
    /\ Len(declared) = 0
    /\ NormalReport
    /\ timer = "unset"
    /\ engineCalls = 0

ResultsFor(r) == { i \in 1..Len(ReportedRules) : ReportedRules[i].rule = r }

\* C9 as stated: the report holds exactly one result for each rule.
C9_OneResultPerRule ==
    NormalReport =>
        \A r \in Range(declared) : Cardinality(ResultsFor(r)) = 1

\* C9 amended: the report holds at most one result per rule and none of
\* another rule; exactly one per rule when the N-th completion ended the
\* wait, and when the timer ended it exactly the rules that had not
\* reported by then are missing.
C9_OneResultPerCompletedRule ==
    NormalReport =>
        /\ \A r \in Range(declared) : Cardinality(ResultsFor(r)) <= 1
        /\ \A i \in 1..Len(ReportedRules) :
              ReportedRules[i].rule \in Range(declared)
        /\ Len(ReportedRules) = countAtEnd
        /\ waitEndedBy = "count" =>
              \A r \in Range(declared) : Cardinality(ResultsFor(r)) = 1
        /\ waitEndedBy = "timer" =>
              /\ Len(ReportedRules) < validatorCount
              /\ \A r \in Range(declared) :
                    Cardinality(ResultsFor(r)) = 0 <=> r \in HungAtEnd

\* C9 witness: both of two rules reported, one result each
C9_Witness ==
    /\ NormalReport
    /\ Len(declared) = 2
    /\ waitEndedBy = "count"
    /\ \A r \in Range(declared) : Cardinality(ResultsFor(r)) = 1

\* C10: the rule results are listed in the order in which their
\* completion callbacks fired.
C10_CompletionOrder ==
    NormalReport =>
        /\ Len(ReportedRules) <= Len(fired)
        /\ \A i \in 1..Len(ReportedRules) : ReportedRules[i] = fired[i]

\* C10 witness: a report that lists two rules in the reverse of their
\* declaration order
C10_Witness ==
    /\ NormalReport
    /\ Len(declared) = 2
    /\ Len(ReportedRules) = 2
    /\ ReportedRules[1].rule = declared[2]
    /\ ReportedRules[2].rule = declared[1]

\* ------------------------------------------------- error handling, order

\* The steps outside and inside the try block
PreTrySteps ==
    {"existsSync", "initializeDocHubEnvironment", "getDocHubPath",
     "importModules", "errorClear"}

TrySteps ==
    Range(LoadStepName) \cup {"entities", "datasets", "validators", "aggregate"}

\* The last step run raised an exception
Raised == Len(log) > 0 /\ ~log[Len(log)].ok

RaisedIn(steps) == Raised /\ log[Len(log)].step \in steps

\* The step at position i of the history is `step` and returned
RanOkAt(i, step) == log[i].step = step /\ log[i].ok

\* The report of the catch block, for the exception of the step that raised
IsDegenerate ==
    /\ report.kind = "report"
    /\ ~report.loaded
    /\ ~report.success
    /\ Len(report.problems) = 1
    /\ report.problems[1].id = "critical-error"
    /\ report.problems[1].error = log[Len(log)].step
    /\ report.stats.totalIssues = 1
    /\ report.stats.loadingErrors = 1
    /\ report.stats.validationErrors = 0

\* C11 as stated: whichever step fails, the caller gets the degenerate
\* report and no exception.
C11_AlwaysReturnsReport ==
    Raised => (pc = "done" /\ report.kind = "report" /\ ~report.loaded)

\* C11 amended: a failure inside the try block (load sequence,
\* post-processing, dataset build, rule evaluation, aggregation) is never
\* propagated and yields the degenerate report; a missing workspace or
\* root manifest, a missing DocHub and a failing module import are raised
\* to the caller, and nothing else is.
C11_TryBlockNeverPropagates ==
    /\ RaisedIn(TrySteps) =>
          (pc = "done" /\ report.kind = "report" /\ ~report.loaded)
    /\ RaisedIn(PreTrySteps) => (pc = "thrown" /\ report.kind = "exception")
    /\ (pc = "thrown" \/ report.kind = "exception") =>
          RaisedIn({"existsSync", "getDocHubPath", "importModules"})

\* C11 witness: checkLoaded raised and the caller got a report
C11_Witness ==
    /\ RaisedIn({"checkLoaded"})
    /\ pc = "done"
    /\ report.kind = "report"

\* C12: a missing workspace or root manifest is raised before any global
\* is set, before the collector is cleared and before any load step: the
\* rejected call changes no session state.
C12_FailsFastBeforeSession ==
    /\ [](~(fsWorkspace /\ fsManifest) =>
            /\ pc \in {"entry", "thrown"}
            /\ ~globalsSet
            /\ loadStep = 1
            /\ Len(log) <= 1
            /\ pc = "thrown" =>
                  /\ report.kind = "exception"
                  /\ report.message \in {"Workspace directory not found",
                                         "Root manifest not found"})
    /\ [][(pc = "entry" /\ pc' = "thrown") =>
            UNCHANGED <<globalsSet, cacheErrors, docStore, loadStep, problems,
                        validatorCount, completedCount, validatorResults,
                        promise, timer, engineCalls, outstanding>>]_vars

\* C12 witness: the call is rejected for a missing root manifest and what
\* an earlier session left in the collector and the store is still there
C12_Witness ==
    /\ pc = "thrown"
    /\ report.kind = "exception"
    /\ report.message = "Root manifest not found"
    /\ cacheErrors # <<>>
    /\ docStore # {}
    /\ ~globalsSet

\* C13: when a step inside the try block raises, the report has success
\* false, the single problem 'critical-error' with the error message, and
\* stats {totalIssues: 1, loadingErrors: 1, validationErrors: 0}.
C13_DegenerateReportShape ==
    RaisedIn(TrySteps) => (pc = "done" /\ IsDegenerate)

\* C13 witness: aggregation raised on a rule result with items and no id
C13_Witness ==
    /\ RaisedIn({"aggregate"})
    /\ IsDegenerate
    /\ Len(validatorResults) >= 1

\* C14 as stated: on every path success is true exactly when
\* stats.validationErrors is 0.
C14_SuccessIffNoValidationErrors ==
    report.kind = "report" =>
        (report.success <=> report.stats.validationErrors = 0)

\* C14 amended: a normally aggregated report has success true exactly
\* when validationErrors, the number of untagged rule results with an
\* item, is 0; the degenerate report has success false with
\* validationErrors 0. On every path success implies validationErrors = 0.
C14_SuccessIffNoValidationErrorsWhenLoaded ==
    report.kind = "report" =>
        /\ report.loaded =>
              /\ report.success <=> report.stats.validationErrors = 0
              /\ report.stats.validationErrors = Cardinality(RealIssuesAtEnd)
        /\ ~report.loaded =>
              (~report.success /\ report.stats.validationErrors = 0)
        /\ report.success => report.stats.validationErrors = 0

\* C14 witness: a report that fails with two validation errors
C14_Witness ==
    /\ NormalReport
    /\ ~report.success
    /\ report.stats.validationErrors = 2

\* C15: when entities(manifest) fails the run stops: the engine is never
\* called, no timer is started, and the report is the single critical
\* error with success false.
C15_EntitiesFailureStopsRun ==
    RaisedIn({"entities"}) =>
        /\ pc = "done"
        /\ IsDegenerate
        /\ engineCalls = 0
        /\ timer = "unset"
        /\ promise = "none"
        /\ outstanding = {}
        /\ fired = <<>>
        /\ validatorResults = <<>>

\* C15 witness: entities failed on a manifest that declares two rules
C15_Witness ==
    /\ RaisedIn({"entities"})
    /\ Len(declared) = 2
    /\ IsDegenerate
    /\ engineCalls = 0

EntitiesRuns == Cardinality({ i \in 1..Len(log) : log[i].step = "entities" })

\* C16 as stated: every session runs entities(manifest) exactly once.
C16_EntitiesOncePerSession ==
    pc = "done" => EntitiesRuns = 1

\* C16 amended: entities(manifest) runs at most once, and exactly once in
\* every session whose load sequence returned; it runs after
\* checkAwaitedPackages and checkLoaded returned and before the datasets
\* are built and before the engine is called. A session whose load
\* sequence raises never runs it.
C16_EntitiesOnceAfterLoad ==
    /\ EntitiesRuns <= 1
    /\ (pc \notin {"entities"} /\ \E i \in 1..Len(log) : RanOkAt(i, "stopLoad"))
          => EntitiesRuns = 1
    /\ RaisedIn(Range(LoadStepName)) => EntitiesRuns = 0
    /\ \A i \in 1..Len(log) :
          log[i].step = "entities" =>
              /\ \E j \in 1..(i - 1) : RanOkAt(j, "checkAwaitedPackages")
              /\ \E j \in 1..(i - 1) : RanOkAt(j, "checkLoaded")
    /\ \A i \in 1..Len(log) :
          log[i].step \in {"datasets", "validators", "aggregate"} =>
              \E j \in 1..(i - 1) : RanOkAt(j, "entities")
    /\ (engineCalls > 0 \/ timer # "unset" \/ promise # "none") =>
          \E j \in 1..Len(log) : RanOkAt(j, "entities")

\* C16 witness: a run that evaluated rules, with one run of entities
C16_Witness ==
    /\ NormalReport
    /\ engineCalls = 1
    /\ EntitiesRuns = 1

IsSessionStep(e) == e.step \in ({"errorClear"} \cup Range(LoadStepName))

\* The session steps of the history, in the order they ran
SessionSteps == SelectSeq(log, IsSessionStep)

SessionOrder == <<"errorClear">> \o LoadStepName

\* C17: a session runs errorClear, clean, startLoad, import,
\* checkAwaitedPackages, checkLoaded, stopLoad in this order, each after
\* the one before returned; what an earlier session left in the collector
\* or in the store is in no report of this session.
C17_SessionOrderAndIsolation ==
    LET steps == SessionSteps
        n == Len(steps)
    IN  /\ n <= Len(SessionOrder)
        /\ \A i \in 1..n :
              /\ steps[i].step = SessionOrder[i]
              /\ i < n => steps[i].ok
        /\ pc \in {"entities", "collect", "validators", "await"} =>
              n = Len(SessionOrder)
        /\ NormalReport =>
              /\ n = Len(SessionOrder)
              /\ "earlier" \notin docStore
              /\ \A i \in 1..Len(report.problems) :
                    report.problems[i].kind = "diagnostic" =>
                        report.problems[i].session = "session"

\* C17 witness: the earlier session had left an entry in the collector and
\* documents in the store; this session's report lists its own diagnostic
C17_Witness ==
    /\ NormalReport
    /\ \E i \in 1..Len(log) :
          log[i].step = "errorClear" /\ log[i].saw = {"earlier"}
    /\ \E i \in 1..Len(log) :
          log[i].step = "clean" /\ log[i].saw = {"earlier"}
    /\ report.stats.loadingErrors = 1

\* C19: load diagnostics never abort the run. Registering one leaves the
\* position of the run and its outcome as they are; a run in which no
\* step raised ends with loaded = true, lists every diagnostic of the
\* collector, ran entities and handed every rule to the engine.
C19_DiagnosticsNeverAbort ==
    /\ [][(cacheErrors' # cacheErrors /\ cacheErrors' # <<>>) =>
            (pc' = pc /\ report' = report /\ log' = log)]_vars
    /\ []((pc = "done" /\ ~Raised) =>
            /\ NormalReport
            /\ ReportedDiagnostics =
                  [i \in 1..Len(cacheErrors) |-> DiagEntry(cacheErrors[i])]
            /\ \E j \in 1..Len(log) : RanOkAt(j, "entities")
            /\ validatorCount = Len(declared)
            /\ Len(declared) > 0 =>
                  /\ engineCalls = 1
                  /\ outstanding \cup { fired[i].rule : i \in 1..Len(fired) }
                        = Range(declared))

\* C19 witness: a diagnostic was registered and every rule was evaluated
C19_Witness ==
    /\ NormalReport
    /\ report.stats.loadingErrors >= 1
    /\ Len(declared) = 2
    /\ waitEndedBy = "count"
    /\ Len(ReportedRules) = 2

\* ------------------------------------------------------ overlapping calls

\* The diagnostics in the report of call s that call t's load registered
DiagnosticsOf(s, t) ==
    { oProblems[s][i].key : i \in { j \in 1..Len(oProblems[s]) :
                                       oProblems[s][j].session = t } }

\* The report of call s holds what the other call recorded
HoldsForeign(s) ==
    \E t \in Sessions \ {s} : DiagnosticsOf(s, t) # {} \/ t \in oManifest[s]

\* The report of call s misses what its own load recorded
LostOwn(s) == DiagnosticsOf(s, s) # oOwn[s] \/ s \notin oManifest[s]

\* C18: two overlapping validateManifest calls share the store and the
\* collector, and a report that holds the other call's diagnostics or
\* documents, or misses its own, is reachable: such a report exists only
\* when the calls overlapped, and calls run one after the other are safe.
C18_BleedOnlyWhenOverlapping ==
    \A s \in Sessions :
        (oReport[s] = "report" /\ (HoldsForeign(s) \/ LostOwn(s))) => overlapped

\* C18 witness: call A returned a report that lists B's diagnostic, was
\* evaluated over B's documents and has lost the diagnostic A's own load
\* registered, because B cleared the collector and the store meanwhile
C18_Witness ==
    /\ oReport["A"] = "report"
    /\ oReport["B"] = "report"
    /\ overlapped
    /\ oOwn["A"] # {}
    /\ DiagnosticsOf("A", "A") = {}
    /\ DiagnosticsOf("A", "B") # {}
    /\ oManifest["A"] = {"B"}

\* --------------------------------------------------------- import walk

\* C20: the import walk terminates on a cyclic import graph: a locator in
\* flight (or merged) is skipped and never fetched again, so a fragment of
\* a cycle is fetched once and only a locator whose fetch failed can be
\* fetched a second time; the only diagnostics are those of failed
\* fetches and parses, none for the cycle; and the walk ends.
C20_CyclicImportsTerminate ==
    /\ [](rRefetched \subseteq rFailed)
    /\ [](\A l \in Locators : rDiag[l] > 0 <=> l \in rFailed)
    /\ [][\A l \in rInFlight \cup rMerged :
             l \in rFetching' => l \in rFetching]_vars
    /\ <>(rpc = "done")

\* C20 witness: the walk of a cyclic graph ended with every fragment
\* merged and no diagnostic
C20_Witness ==
    /\ rpc = "done"
    /\ rCycleSkip
    /\ rMerged = Locators
    /\ rFailed = {}
    /\ rInFlight = {}

\* C21: each locator is merged at most once in a load, also when it is
\* reachable from the root on two different import paths: a merged locator
\* is never fetched, awaited or merged again.
C21_MergedAtMostOnce ==
    /\ [](rRemerged = {})
    /\ [](rMerged \cap (rFetching \cup rAwaited) = {})
    /\ [][\A l \in rMerged : l \in rMerged' /\ rTodo'[l] \subseteq rTodo[l]]_vars

\* C21 witness: a load ended in which a reference to a locator already
\* reached on another path was walked, and every fragment is merged
C21_Witness ==
    /\ rpc = "done"
    /\ rSharedSkip
    /\ ~rCycleSkip
    /\ rMerged = Locators
    /\ rRemerged = {}

\* C22: a failed fetch or parse never stops the walk: the step that
\* records the failure keeps the merge and the references still to walk,
\* resolution completes with every other branch walked, and the collector
\* holds exactly one diagnostic, keyed by the locator, for each locator
\* that failed and none for any other.
C22_PartialFailureTolerated ==
    /\ [](\A l \in Locators : rDiag[l] = IF l \in rFailed THEN 1 ELSE 0)
    /\ [][rFailed' # rFailed =>
            (rMerged' = rMerged /\ rTodo' = rTodo /\ rpc' # "done")]_vars
    /\ [](rpc = "done" =>
            /\ rFetching = {}
            /\ rInFlight = {}
            /\ \A l \in Locators : rTodo[l] = {} /\ rOpen[l] = {}
            /\ rFetched = rMerged \cup rFailed)
    /\ <>(rpc = "done")

\* C22 witness: the root imported a valid fragment and a missing one; the
\* load ended with the valid fragment merged and one diagnostic
C22_Witness ==
    /\ rpc = "done"
    /\ rMerged = {Root, 1}
    /\ rFailed = {2}
    /\ rDiag[2] = 1
    /\ rDiag[1] = 0
    /\ rRefetched = {}

\* C23: no awaited reference outlives its session: an awaited reference
\* stops being pending only by being merged or by becoming a diagnostic,
\* the settle step does not return while one is pending, and at session
\* close none is pending and every locator awaited or fetched is merged
\* or has a diagnostic.
C23_AwaitedSettledInSession ==
    /\ [][\A l \in rAwaited :
             l \notin rAwaited' => (l \in rMerged' \/ rDiag'[l] > 0)]_vars
    /\ [][(rpc = "settling" /\ rpc' = "done") => rAwaited = {}]_vars
    /\ [](rpc = "done" =>
            /\ rAwaited = {}
            /\ \A l \in rFetched : l \in rMerged \/ rDiag[l] > 0)
    /\ <>(rpc = "done" /\ rAwaited = {})

\* C23 witness: a session closed after the settle step promoted one
\* awaited reference and turned another into a diagnostic
C23_Witness ==
    /\ rpc = "done"
    /\ rLate = {"promoted", "diagnostic"}
    /\ rAwaited = {}

\* ---------------------------------------------------------------- C24
\* The keys of the entries of a list of cache.errors entries or of problems
KeysOf(entries) == { entries[i].key : i \in 1..Len(entries) }

\* C24: recording a load failure is idempotent per id. cache.errors never
\* holds two entries under one key; the loading errors collected, and the
\* diagnostics of the report, are the entries of cache.errors, each listed
\* exactly once and in the collector's order; so a failure registered again
\* under the same key raises stats.loadingErrors by one only.
C24_RecordingIdempotent ==
    /\ Cardinality(KeysOf(cacheErrors)) = Len(cacheErrors)
    /\ (pc \in {"validators", "await"} \/ NormalReport) =>
          problems = [i \in 1..Len(cacheErrors) |-> DiagEntry(cacheErrors[i])]
    /\ NormalReport =>
          /\ ReportedDiagnostics = problems
          /\ report.stats.loadingErrors = Cardinality(KeysOf(cacheErrors))

\* A failure was registered twice under one key: the collector holds one
\* entry and the loading errors collected for the report are that one entry
C24_Witness ==
    /\ pc = "validators"
    /\ reRegistered
    /\ Len(cacheErrors) = 1
    /\ problems = <<DiagEntry(cacheErrors[1])>>

\* ---------------------------------------------------------- exit codes
\* process.exit was called after validateManifest returned or threw
Finished == cpc = "exited" /\ result # NoReport

\* The run ended in the catch block
FatalError == cpc = "exited" /\ caught # {}

\* C25: the CLI exits with code 2 whenever the report has
\* stats.loadingErrors > 0 or the run ended in a fatal error.
C25_ExitTwoOnLoadingOrFatal ==
    (Finished /\ (FatalError \/ (result.kind = "report"
                                  /\ result.stats.loadingErrors > 0)))
        => exitCode = {2}

\* validateManifest returned a report and the catch block did not run
Reported == Finished /\ result.kind = "report" /\ ~FatalError

\* C26 as stated: the CLI exits with code 0 exactly when the report has
\* success = true, and with code 1 whenever stats.validationErrors > 0 and
\* no fatal error occurred.
C26_ZeroIffSuccessOneOnViolations ==
    /\ Finished =>
          (exitCode = {0} <=> (result.kind = "report" /\ result.success))
    /\ (Reported /\ result.stats.validationErrors > 0) => exitCode = {1}

\* C26 amended: when no fatal error occurred the CLI exits with code 0
\* exactly when the report has success = true, with code 1 exactly when
\* the report has validation errors and no loading errors, and with code 2
\* when it has validation errors and loading errors; a fatal error after a
\* successful validation (the output cannot be written) exits with code 2.
C26_ExitCodeFollowsReport ==
    /\ Finished => (exitCode = {0} <=> (Reported /\ result.success))
    /\ Finished =>
          (exitCode = {1} <=> (/\ Reported
                               /\ result.stats.validationErrors > 0
                               /\ result.stats.loadingErrors = 0))
    /\ (Reported /\ result.stats.validationErrors > 0
                 /\ result.stats.loadingErrors > 0) => exitCode = {2}
    /\ (FatalError /\ result.kind = "report" /\ result.success)
          => exitCode = {2}

\* A run that found rule violations and no load diagnostic, printed its
\* report and exited with code 1
C26_Witness ==
    /\ Reported
    /\ result.stats.validationErrors > 0
    /\ result.stats.loadingErrors = 0
    /\ stdout # <<>>
    /\ exitCode = {1}

\* ----------------------------------------------------------- fatal error
\* C27: when validateManifest throws, 'Fatal error: <message>' is written
\* to the error stream in default mode as well as in verbose mode, the
\* stack trace only in verbose mode, and the exit code is 2; on every path
\* out of the validation call console.log and console.error are the
\* original functions again.
C27_FatalErrorReported ==
    /\ (Finished /\ result.kind = "exception") =>
          /\ \E i \in 1..Len(stderr) :
                stderr[i] = [line |-> "Fatal error", message |-> result.message]
          /\ (\E i \in 1..Len(stderr) : stderr[i].line = "stack")
                <=> options.verbose
          /\ exitCode = {2}
    /\ Finished => (consoleLog = "original" /\ consoleError = "original")

\* ----------------------------------------------------------- text output
\* A problem with at least one item whose id does not start with '$error'
RealProblem(p) == ProblemItems(p) >= 1 /\ ~DiagnosticTagged(ProblemId(p))

\* C28: the text output lists a problem of the report if and only if it
\* has at least one item and its id does not start with '$error', in the
\* report's order; load diagnostics, the critical error and rule results
\* without items are never listed, and for a loaded manifest the number of
\* problems listed is stats.validationErrors.
C28_TextListsRealProblemsOnly ==
    (Finished /\ result.kind = "report" /\ output.kind = "text") =>
        /\ output.listed = SelectSeq(result.problems, RealProblem)
        /\ \A i \in 1..Len(output.listed) :
              /\ output.listed[i].kind = "rule"
              /\ output.listed[i].hasItems
              /\ output.listed[i].items >= 1
        /\ result.loaded => Len(output.listed) = result.stats.validationErrors

\* A text output that lists one rule result of a report that also holds
\* a load diagnostic and a rule result that is not listed
C28_Witness ==
    /\ Reported
    /\ output.kind = "text"
    /\ Len(output.listed) = 1
    /\ Len(result.problems) = 3
    /\ result.stats.loadingErrors = 1

\* ------------------------------------------------------ file system writes
\* C29: a run never creates or modifies a file inside the workspace
\* directory; its only file system write is the report at the --output
\* path, for any option values.
C29_WorkspaceNeverWritten ==
    /\ "inside" \notin written
    /\ written \subseteq ({options.output} \ {"none"})

\* ------------------------------------------------------ late completions
\* C30: a rule that reports completion after the wait ended by timeout does
\* not change the report already built. Once validateManifest has returned
\* a report no step changes it, and the report of a wait ended by the timer
\* is the snapshot of that moment: problems are the loading errors followed
\* by the results collected when the wait ended, success and stats are
\* computed from those alone.
C30_LateCompletionKeepsReport ==
    /\ [][report.kind = "report" => report' = report]_vars
    /\ []((NormalReport /\ waitEndedBy = "timer") =>
            /\ report.problems = problems \o CollectedAtEnd
            /\ report.success = (RealIssuesAtEnd = {})
            /\ report.stats = [totalIssues |-> Len(problems) + countAtEnd,
                               loadingErrors |-> Len(problems),
                               validationErrors |-> Cardinality(RealIssuesAtEnd)])

\* The wait ended by the timer with no result, the report says success,
\* and then the rule left out reported a real issue
C30_Witness ==
    /\ NormalReport
    /\ waitEndedBy = "timer"
    /\ countAtEnd = 0
    /\ report.success
    /\ Len(validatorResults) = 1
    /\ RealIssue(validatorResults[1])
    /\ Len(ReportedRules) = 0

\* ----------------------------------------------------- counting completions
\* The rules whose callbacks have fired
RulesFired == { fired[i].rule : i \in 1..Len(fired) }

\* C31: while the rules are evaluated, and afterwards, completedCount is
\* the length of validatorResults and the number of callback invocations;
\* the wait ends by count exactly on the invocation that makes that number
\* validatorCount, whichever rules the invocations came from.
C31_CountsInvocations ==
    /\ [](engineCalls > 0 =>
            /\ completedCount = Len(validatorResults)
            /\ completedCount = Len(fired))
    /\ [][(promise = "pending" /\ Len(fired') > Len(fired)) =>
            (promise' = "resolved" <=> Len(fired') = validatorCount)]_vars
    /\ [](waitEndedBy = "count" => countAtEnd = validatorCount)

\* Two rules declared; the wait ended by count on the second invocation,
\* both invocations came from one rule and the other rule has no result
C31_Witness ==
    /\ NormalReport
    /\ validatorCount = 2
    /\ waitEndedBy = "count"
    /\ Len(fired) = 2
    /\ Cardinality(RulesFired) = 1
    /\ outstanding = {}
    /\ Len(ReportedRules) = 2

\* ------------------------------------------------------------ failed rules
\* The rule results of the report the CLI received
RuleProblems == SelectSeq(result.problems, IsRule)

\* A rule result with its error field populated and no items
ErrorOnly(p) == p.error /\ (~p.hasItems \/ p.items = 0)

\* C32: a rule result that has its error field populated and no items
\* never counts as a validation error: validationErrors is at most the
\* number of rule results that are not of that kind, and a report whose
\* rule results all failed with an error and no items has success = true
\* and validationErrors = 0, and the CLI exits with code 0 when it has
\* written the output.
C32_ErrorOnlyResultsNotCounted ==
    (Finished /\ result.kind = "report" /\ result.loaded) =>
        /\ result.stats.validationErrors <=
              Cardinality({ i \in 1..Len(RuleProblems) :
                              ~ErrorOnly(RuleProblems[i]) })
        /\ (\A i \in 1..Len(RuleProblems) : ErrorOnly(RuleProblems[i])) =>
              /\ result.success
              /\ result.stats.validationErrors = 0
              /\ ~FatalError => exitCode = {0}

\* Two rules, both failed with an error and no items, no load diagnostic:
\* the report says success and the CLI exited with code 0
C32_Witness ==
    /\ Reported
    /\ result.loaded
    /\ Len(RuleProblems) = 2
    /\ \A i \in 1..2 : ErrorOnly(RuleProblems[i])
    /\ result.stats.loadingErrors = 0
    /\ result.success
    /\ exitCode = {0}

\* ------------------------------------------------- reading the collector
\* C33: the load diagnostics of the report are read from the collector
\* once, after post-processing and before rule evaluation: problems is
\* assigned only by the step that follows entities(manifest), and an entry
\* registered while the rules are evaluated is neither in the report's
\* problems nor counted in stats.loadingErrors.
C33_CollectorReadOnce ==
    /\ [][problems' # problems =>
            /\ pc = "collect" /\ pc' \in {"validators", "done"}
            /\ \E i \in 1..Len(log) : RanOkAt(i, "entities")
            /\ engineCalls = 0]_vars
    /\ [](\A i \in 1..Len(problems) : problems[i].session # "late")
    /\ [](NormalReport =>
            /\ ReportedDiagnostics = problems
            /\ report.stats.loadingErrors = Len(problems)
            /\ \A i \in 1..Len(report.problems) :
                  IsDiagnostic(report.problems[i])
                      => report.problems[i].session # "late")

\* The collector holds an entry registered during rule evaluation under a
\* new key; the report lists and counts only the entry read before
C33_Witness ==
    /\ NormalReport
    /\ Len(cacheErrors) = Len(problems) + 1
    /\ \E i \in 1..Len(cacheErrors) : cacheErrors[i].session = "late"
    /\ report.stats.loadingErrors = Len(problems)
    /\ Len(ReportedDiagnostics) = Len(problems)

\* ------------------------------------------- exceptions after the load
\* The six load steps returned
LoadSucceeded == \E i \in 1..Len(log) : RanOkAt(i, "stopLoad")

\* C34: when an exception is raised after the load phase succeeded (by
\* entities, the dataset build, the engine call or the aggregation), the
\* report returned states manifest.loaded = false and its problems hold
\* the critical error only: none of the load diagnostics and rule results
\* collected up to that point.
C34_LateExceptionDropsCollected ==
    (LoadSucceeded /\ Raised) =>
        /\ log[Len(log)].step \in {"entities", "datasets", "validators",
                                    "aggregate"}
        /\ report.kind = "report"
        /\ ~report.loaded
        /\ \A i \in 1..Len(report.problems) :
              report.problems[i].kind = "critical"
        /\ Len(ReportedDiagnostics) = 0
        /\ Len(ReportedRules) = 0

\* The aggregation raised with a load diagnostic and a rule result
\* collected: the report holds neither
C34_Witness ==
    /\ LoadSucceeded
    /\ RaisedIn({"aggregate"})
    /\ Len(problems) >= 1
    /\ Len(validatorResults) >= 1
    /\ report.kind = "report"
    /\ ~report.loaded
    /\ Len(report.problems) = 1

\* ------------------------------------------- text of the critical error
\* The report of the catch block of validateManifest
CriticalReport ==
    /\ result.kind = "report"
    /\ ~result.loaded
    /\ Len(result.problems) = 1
    /\ result.problems[1].kind = "critical"

\* C35: the text output never lists a problem that has an error and no
\* items; for the report of the catch block it says 'Failed to load
\* manifest' and 'Validation FAILED', lists nothing and prints no error
\* line (so neither the message nor the stack), whether verbose or not.
C35_TextOmitsErrorOnlyProblems ==
    (Finished /\ result.kind = "report" /\ output.kind = "text") =>
        /\ \A i \in 1..Len(output.listed) :
              ~(HasError(output.listed[i])
                /\ ProblemItems(output.listed[i]) = 0)
        /\ \A i \in 1..Len(result.problems) :
              (HasError(result.problems[i])
               /\ ProblemItems(result.problems[i]) = 0)
                 => \A j \in 1..Len(output.errors) :
                       output.errors[j] # result.problems[i]
        /\ CriticalReport =>
              /\ ~output.loaded
              /\ ~output.passed
              /\ output.summary = <<>>
              /\ output.listed = <<>>
              /\ output.errors = <<>>

\* A verbose run printed the text of a report of the catch block
C35_Witness ==
    /\ Reported
    /\ CriticalReport
    /\ options.verbose
    /\ output.kind = "text"
    /\ output.errors = <<>>
    /\ ~output.passed
    /\ stdout # <<>>

\* -------------------------------------------- text against the report
\* C36: for every report validateManifest returns, the text agrees with
\* the report: when 'Found K validation issue(s)' is printed K is
\* stats.validationErrors, the summary line is printed exactly when
\* problems are listed and shows the same number, 'Validation PASSED' is
\* never printed together with listed problems, and for a loaded manifest
\* 'Validation FAILED' is never printed with nothing listed.
C36_TextAgreesWithReport ==
    (Finished /\ result.kind = "report" /\ output.kind = "text") =>
        /\ output.listed # <<>> =>
              Len(output.listed) = result.stats.validationErrors
        /\ output.summary # <<>> <=> output.listed # <<>>
        /\ output.summary # <<>> => output.summary[1] = Len(output.listed)
        /\ output.passed => output.listed = <<>>
        /\ (result.loaded /\ ~output.passed) => output.listed # <<>>

\* A text that lists two rule results for a report with two validation
\* errors and a load diagnostic, with the verdict FAILED
C36_Witness ==
    /\ Reported
    /\ output.kind = "text"
    /\ result.loaded
    /\ result.stats.validationErrors = 2
    /\ result.stats.loadingErrors = 1
    /\ Len(output.listed) = 2
    /\ output.summary = <<2>>
    /\ ~output.passed

====
